---- MODULE Spec2Model ----
(***************************************************************************)
(* Model of the LightUpAlarm package: the alarm records kept by AlarmDb,   *)
(* the input sanitation of AlarmItem and the list of alarm threads that    *)
(* AlarmManager keeps synchronised with the stored alarms.                 *)
(*                                                                         *)
(* AlarmThread.py is not part of the sources; the life cycle of a timer    *)
(* (Scheduled, Stopping, Stopped) is taken from the design description.    *)
(***************************************************************************)
EXTENDS Integers, Sequences, FiniteSets, TLC

\* Largest alarm identity the model lets the database hand out.
MaxId == 2

Ids == 1..MaxId

(***************************************************************************)
(* AlarmItem: input sanitation and the derived predicates.                 *)
(***************************************************************************)
NoDays == <<FALSE, FALSE, FALSE, FALSE, FALSE, FALSE, FALSE>>
WeekDays == <<TRUE, TRUE, TRUE, TRUE, TRUE, FALSE, FALSE>>
WeekEnd == <<FALSE, FALSE, FALSE, FALSE, FALSE, TRUE, TRUE>>

\* __set_hour accepts an integer h with 0 <= h < 24.
ValidHour(h) == 0 <= h /\ h < 24

\* __set_minute accepts an integer m with 0 <= m < 60.
ValidMinute(m) == 0 <= m /\ m < 60

\* __set_repeat accepts a list of exactly seven booleans.
ValidRepeat(d) == Len(d) = 7 /\ \A k \in 1..Len(d) : d[k] \in BOOLEAN

\* AlarmItem.__new__: the instance is returned only when every supplied
\* field was taken by its accessor; otherwise the constructor yields None.
AlarmItemValid(hour, minute, days) ==
    ValidHour(hour) /\ ValidMinute(minute) /\ ValidRepeat(days)

AlarmItem(hour, minute, days, enabled) ==
    [hour |-> hour, minute |-> minute, repeat |-> days, enabled |-> enabled,
     label |-> ""]

any_day_enabled(alarm) == \E k \in 1..7 : alarm.repeat[k] = TRUE

is_active(alarm) == alarm.enabled = TRUE /\ any_day_enabled(alarm)

\* A value handed to an accessor: its Python type and its numeric value.
\* isinstance(v, int) holds for an int and for a bool (a bool is an int).
Value(type, val) == [type |-> type, val |-> val]

IsInt(v) == v.type \in {"int", "bool"}

\* Python's == between a stored integer and a handed-in value: numbers are
\* compared by value whatever their type (0 == 0.0, 1 == True), a string is
\* never equal to a number.
EqualsInt(n, v) == v.type \in {"int", "bool", "float"} /\ n = v.val

\* __set_hour: an integer in 0..23 is stored, anything else leaves the field.
set_hour(alarm, new_hour) ==
    IF IsInt(new_hour) /\ ValidHour(new_hour.val)
    THEN [alarm EXCEPT !.hour = new_hour.val]
    ELSE alarm

\* __set_minute: an integer in 0..59 is stored, anything else leaves the field.
set_minute(alarm, new_minute) ==
    IF IsInt(new_minute) /\ ValidMinute(new_minute.val)
    THEN [alarm EXCEPT !.minute = new_minute.val]
    ELSE alarm

\* __set_label, for a string: str(new_label) is the string itself.
set_label(alarm, new_label) == [alarm EXCEPT !.label = new_label]

\* __set_repeat, for a list of booleans: stored when it has seven items.
set_repeat(alarm, new_repeat) ==
    IF ValidRepeat(new_repeat) THEN [alarm EXCEPT !.repeat = new_repeat] ELSE alarm

\* AlarmItem.__new__: the instance starts with hour 0, minute 0, no repeat
\* day and disabled; the accessors take the arguments; the instance is
\* returned when every field compares equal to its argument, else None.
\* The result is the set holding the instance, empty for None.
AlarmItemNew(hour, minute, days, enabled) ==
    LET instance ==
            [set_repeat(
                 set_minute(set_hour(AlarmItem(0, 0, NoDays, FALSE), hour), minute),
                 days)
             EXCEPT !.enabled = enabled]
        valid_inputs ==
            /\ EqualsInt(instance.hour, hour)
            /\ EqualsInt(instance.minute, minute)
            /\ instance.repeat = days
    IN  IF valid_inputs THEN {instance} ELSE {}

one_day_minutes == 1440

\* minutes_to_alert, first corner case: the alarm is due later the same day.
\* weekday is 0 (Monday) to 6 (Sunday); repeat is indexed from 1.
first_corner_case_strict(alarm, weekday, alarm_day_minute, ref_day_minute) ==
    alarm.repeat[weekday + 1] = TRUE /\ alarm_day_minute > ref_day_minute

first_corner_case(alarm, weekday, alarm_day_minute, ref_day_minute) ==
    alarm.repeat[weekday + 1] = TRUE /\ alarm_day_minute >= ref_day_minute

\* Variant of minutes_difference that borrows a day for a negative minute
\* term.
minutes_difference_borrowing(day_count, alarm_day_minute, ref_day_minute) ==
    IF alarm_day_minute >= ref_day_minute
    THEN day_count * one_day_minutes + (alarm_day_minute - ref_day_minute)
    ELSE (day_count + 1) * one_day_minutes - (ref_day_minute - alarm_day_minute)

\* minutes_to_alert, a repeat day found day_count days ahead.
minutes_difference(day_count, alarm_day_minute, ref_day_minute) ==
    IF alarm_day_minute >= ref_day_minute
    THEN day_count * one_day_minutes + (alarm_day_minute - ref_day_minute)
    ELSE day_count * one_day_minutes - (ref_day_minute - alarm_day_minute)

\* Variant of second_corner_case with the two day-minutes exchanged.
second_corner_case_exchanged(alarm, weekday, alarm_day_minute, ref_day_minute) ==
    IF alarm.repeat[weekday + 1] = TRUE /\ ref_day_minute > alarm_day_minute
    THEN {(one_day_minutes * 7) - alarm_day_minute + ref_day_minute}
    ELSE {}

\* Variant of second_corner_case that does not look at the repeat flag.
second_corner_case_unflagged(alarm, weekday, alarm_day_minute, ref_day_minute) ==
    IF ref_day_minute > alarm_day_minute
    THEN {(one_day_minutes * 7) - ref_day_minute + alarm_day_minute}
    ELSE {}

\* minutes_to_alert, after the loop: the same day next week, or None.
second_corner_case(alarm, weekday, alarm_day_minute, ref_day_minute) ==
    IF alarm.repeat[weekday + 1] = TRUE /\ ref_day_minute > alarm_day_minute
    THEN {(one_day_minutes * 7) - ref_day_minute + alarm_day_minute}
    ELSE {}

next_day(day) == IF day + 1 > 6 THEN 0 ELSE day + 1

\* minutes_to_alert, the while loop over the rest of the week.
RECURSIVE ScanWeek(_, _, _, _, _, _)
ScanWeek(alarm, day, day_count, weekday, alarm_day_minute, ref_day_minute) ==
    IF day = weekday
    THEN second_corner_case(alarm, weekday, alarm_day_minute, ref_day_minute)
    ELSE IF alarm.repeat[day + 1] = TRUE
    THEN {minutes_difference(day_count, alarm_day_minute, ref_day_minute)}
    ELSE ScanWeek(alarm, next_day(day), day_count + 1, weekday,
                  alarm_day_minute, ref_day_minute)

\* minutes_to_alert: the set holding the minutes, empty for None.
minutes_to_alert(alarm, hour, minute, weekday) ==
    LET alarm_day_minute == alarm.minute + (alarm.hour * 60)
        ref_day_minute == minute + (hour * 60)
    IN  IF first_corner_case(alarm, weekday, alarm_day_minute, ref_day_minute)
        THEN {alarm_day_minute - ref_day_minute}
        ELSE ScanWeek(alarm, next_day(weekday), 1, weekday,
                      alarm_day_minute, ref_day_minute)

\* diff_alarm, "while new_minute < 0" and "while new_hour < 0": the value is
\* raised by the modulus until it is not negative, one unit borrowed per turn.
RECURSIVE RaiseToRange(_, _, _)
RaiseToRange(value, modulus, extra) ==
    IF value < 0 THEN RaiseToRange(value + modulus, modulus, extra - 1)
    ELSE [value |-> value, extra |-> extra]

\* diff_alarm, "while new_minute >= 60" and "while new_hour >= 24": one turn
\* of "value %= modulus" ends the loop; then the loop for a negative value.
CarryToRange(value, modulus) ==
    IF value >= modulus THEN RaiseToRange(value % modulus, modulus, 1)
    ELSE RaiseToRange(value, modulus, 0)

\* Variant of days_up that moves nothing.
days_kept(new_days) == new_days

\* new_days.append(new_days.pop(0))
days_up(new_days) == Tail(new_days) \o <<Head(new_days)>>

\* diff_alarm, the repeat days: moved up by one per day for a negative
\* extra_days, the tail moved to the head for a positive one.
RECURSIVE MoveDays(_, _)
MoveDays(new_days, extra_days) ==
    IF extra_days < 0 THEN MoveDays(days_up(new_days), extra_days + 1)
    ELSE IF extra_days > 0
    THEN SubSeq(new_days, Len(new_days) - extra_days + 1, Len(new_days))
             \o SubSeq(new_days, 1, Len(new_days) - extra_days)
    ELSE new_days

\* " (Alarm %s %+dmin)" % (self.id_, min_difference); the identity None is
\* the empty set.
DiffLabel(alarm_id, min_difference) ==
    " (Alarm "
        \o (IF alarm_id = {} THEN "None" ELSE ToString(CHOOSE k \in alarm_id : TRUE))
        \o " "
        \o (IF min_difference >= 0 THEN "+" ELSE "")
        \o ToString(min_difference)
        \o "min)"

\* diff_alarm: None (the empty set) for a difference that is not an integer
\* or not between -59 and 59; else the AlarmItem constructed from the moved
\* hour, minute and days, the enabled state and the new label.  Identity and
\* timestamp are not handed to the constructor and are None in the result.
diff_alarm(alarm, alarm_id, min_difference) ==
    IF ~IsInt(min_difference) THEN {}
    ELSE IF ~(-60 < min_difference.val /\ min_difference.val < 60) THEN {}
    ELSE LET minutes == CarryToRange(alarm.minute + min_difference.val, 60)
             hours == CarryToRange(alarm.hour + minutes.extra, 24)
             new_days == MoveDays(alarm.repeat, hours.extra)
             new_label == alarm.label \o DiffLabel(alarm_id, min_difference.val)
         IN  {[alarm |-> set_label(alarm_diff, new_label), id_ |-> {}, timestamp |-> {}] :
                  alarm_diff \in AlarmItemNew(Value("int", hours.value),
                                              Value("int", minutes.value),
                                              new_days, alarm.enabled)}

(***************************************************************************)
(* AlarmThread (from the design description): one timer per running alarm. *)
(***************************************************************************)
\* A newly constructed and started timer: start() returns with the thread
\* alive.  fresh marks an object constructed by the call that led to the
\* current state: a thread that is fresh is another object than any thread
\* the list held before that call.  asked marks a thread whose stop() that
\* call has invoked.
AlarmThread(alarm_id, alarm) ==
    [id |-> alarm_id, state |-> "Scheduled", alarm |-> alarm,
     fresh |-> TRUE, asked |-> FALSE]

isAlive(t) == t.state # "Stopped"

\* AlarmThread.edit_alarm: the held snapshot is replaced, nothing else.
thread_edit_alarm(t, alarm) == [t EXCEPT !.alarm = alarm]

\* Variant of stop() that ends the thread by force.
thread_stop_forced(t, coop) == [t EXCEPT !.state = "Stopped", !.asked = TRUE]

\* stop() followed by the caller's bounded wait: the timer of an identity in
\* coop has observed the stop flag when the wait ends, any other is still
\* alive.
thread_stop(t, coop) ==
    IF t.state = "Stopped" THEN [t EXCEPT !.asked = TRUE]
    ELSE IF t.id \in coop THEN [t EXCEPT !.state = "Stopped", !.asked = TRUE]
    ELSE [t EXCEPT !.state = "Stopping", !.asked = TRUE]

\* Variant of the callback in which what the callback raises ends the thread.
thread_callback_uncaught(t, raised) ==
    IF raised THEN [t EXCEPT !.state = "Stopped"] ELSE t

\* The alert callback or the offset callback has run on the timer's task:
\* what it raises is caught and logged, the timer stays in its loop.
thread_callback(t, raised) == t

\* Variant of the loop that goes on when there is no next alert.
thread_next_alert_looping(t, minutes) == t

\* The timer has computed the minutes to its next alert from the snapshot it
\* holds: with None the loop ends, otherwise the timer sleeps until then.
thread_next_alert(t, minutes) ==
    IF minutes = {} THEN [t EXCEPT !.state = "Stopped"] ELSE t

\* The identities with a thread that is alive.
AliveIds(ths) == {ths[k].id : k \in {j \in 1..Len(ths) : isAlive(ths[j])}}

\* The threads as a call finds them: the marks of the call before are gone.
Aged(ths) ==
    SubSeq([k \in 1..Len(ths) |-> [ths[k] EXCEPT !.fresh = FALSE, !.asked = FALSE]],
           1, Len(ths))

(***************************************************************************)
(* State.                                                                  *)
(***************************************************************************)
VARIABLES
    db,        \* alarms table: identity -> stored alarm
    threads,   \* AlarmManager.__alarm_threads
    last,      \* the call or timer step that led to this state
    item,      \* an AlarmItem object outside the manager: {} is None
    callers    \* the position of each caller inside a manager method

vars == <<db, threads, last, item, callers>>

\* No caller is inside a method of the manager.
NoCallers == <<>>

(***************************************************************************)
(* AlarmDb: the alarms table.                                              *)
(***************************************************************************)
\* The identities of the stored alarms, as a list in table (rowid) order.
RECURSIVE RowIds(_, _)
RowIds(table, n) ==
    IF n > MaxId THEN <<>>
    ELSE IF n \in DOMAIN table THEN <<n>> \o RowIds(table, n + 1)
    ELSE RowIds(table, n + 1)

get_all_alarms(table) == RowIds(table, 1)

\* AlarmDb.get_alarm: find_one(id=alarm_id), and for a row that is found the
\* AlarmItem constructed from its columns; the set holding it, empty for
\* None.
get_alarm_defaults(table, alarm_id) ==
    IF alarm_id \notin DOMAIN table THEN {}
    ELSE AlarmItemNew(Value("int", table[alarm_id].hour),
                      Value("int", table[alarm_id].minute), NoDays, TRUE)

get_alarm(table, alarm_id) ==
    IF alarm_id \notin DOMAIN table THEN {}
    ELSE {set_label(alarm, table[alarm_id].label) :
              alarm \in AlarmItemNew(Value("int", table[alarm_id].hour),
                                     Value("int", table[alarm_id].minute),
                                     table[alarm_id].repeat,
                                     table[alarm_id].enabled)}

\* AlarmDb.get_all_disabled_alarms: find(enabled=False), in table order.
get_all_disabled_alarms(table) ==
    SelectSeq(get_all_alarms(table), LAMBDA k : table[k].enabled = FALSE)

\* AlarmDb.get_all_enabled_alarms: find(enabled=True), in table order.
get_all_enabled_alarms(table) ==
    SelectSeq(get_all_alarms(table), LAMBDA k : table[k].enabled = TRUE)

\* alarms_table.insert: the new row gets the rowid after the largest one.
NewRowId(table) ==
    IF DOMAIN table = {} THEN 1
    ELSE (CHOOSE m \in DOMAIN table : \A k \in DOMAIN table : k <= m) + 1

db_add_alarm(table, alarm) ==
    [k \in DOMAIN table \cup {NewRowId(table)} |->
        IF k \in DOMAIN table THEN table[k] ELSE alarm]

\* One alarms_table.update(dict(id=..., field=...), ['id']) of edit_alarm:
\* a supplied field that passes the AlarmItem sanitation is written at once,
\* whatever becomes of the other fields.
db_edit_hour(table, alarm_id, hour) ==
    IF hour # {} /\ alarm_id \in DOMAIN table /\ \A h \in hour : ValidHour(h)
    THEN [table EXCEPT ![alarm_id].hour = CHOOSE h \in hour : TRUE]
    ELSE table

\* Variant of the minute update that writes the whole AlarmItem(0, minute).
db_edit_minute_resetting(table, alarm_id, minute) ==
    IF minute # {} /\ alarm_id \in DOMAIN table /\ \A m \in minute : ValidMinute(m)
    THEN [table EXCEPT ![alarm_id].minute = CHOOSE m \in minute : TRUE,
                       ![alarm_id].hour = 0]
    ELSE table

db_edit_minute(table, alarm_id, minute) ==
    IF minute # {} /\ alarm_id \in DOMAIN table /\ \A m \in minute : ValidMinute(m)
    THEN [table EXCEPT ![alarm_id].minute = CHOOSE m \in minute : TRUE]
    ELSE table

db_edit_days(table, alarm_id, days) ==
    IF days # {} /\ alarm_id \in DOMAIN table /\ \A d \in days : ValidRepeat(d)
    THEN [table EXCEPT ![alarm_id].repeat = CHOOSE d \in days : TRUE]
    ELSE table

db_edit_enabled(table, alarm_id, enabled) ==
    IF enabled # {} /\ alarm_id \in DOMAIN table
    THEN [table EXCEPT ![alarm_id].enabled = CHOOSE e \in enabled : TRUE]
    ELSE table

db_edit_label(table, alarm_id, label) ==
    IF label # {} /\ alarm_id \in DOMAIN table
    THEN [table EXCEPT ![alarm_id].label = CHOOSE l \in label : TRUE]
    ELSE table

\* AlarmDb.edit_alarm: the fields are parsed and written one after the other;
\* success is false when a supplied field is rejected or no row was updated.
\* An absent argument (None) is the empty set, a supplied one a singleton.
db_edit_alarm_success(table, alarm_id, args) ==
    /\ (args.hour # {} => (alarm_id \in DOMAIN table /\ \A h \in args.hour : ValidHour(h)))
    /\ (args.minute # {} =>
            (alarm_id \in DOMAIN table /\ \A m \in args.minute : ValidMinute(m)))
    /\ (args.days # {} => (alarm_id \in DOMAIN table /\ \A d \in args.days : ValidRepeat(d)))
    /\ (args.enabled # {} => alarm_id \in DOMAIN table)
    /\ (args.label # {} => alarm_id \in DOMAIN table)
    \* the closing timestamp update finds no row for an unknown identity
    /\ alarm_id \in DOMAIN table

db_edit_alarm(table, alarm_id, args) ==
    db_edit_label(
        db_edit_enabled(
            db_edit_days(
                db_edit_minute(
                    db_edit_hour(table, alarm_id, args.hour),
                    alarm_id, args.minute),
                alarm_id, args.days),
            alarm_id, args.enabled),
        alarm_id, args.label)

\* AlarmDb.update_alarm: the row with the identity of the AlarmItem gets its
\* hour, minute, days, enabled state and label; true when a row was updated.
db_update_alarm(table, alarm_id, alarm) ==
    IF alarm_id \in DOMAIN table THEN [table EXCEPT ![alarm_id] = alarm] ELSE table

db_update_alarm_success(table, alarm_id) == alarm_id \in DOMAIN table

\* Variant of the delete that has no filter.
db_delete_alarm_unfiltered(table, alarm_id) == [k \in {} |-> table[k]]

\* alarms_table.delete(id=alarm_id): true when a row was deleted.
db_delete_alarm(table, alarm_id) == [k \in DOMAIN table \ {alarm_id} |-> table[k]]

db_delete_alarm_success(table, alarm_id) == alarm_id \in DOMAIN table

\* alarms_table.delete(): every row goes; true when a row was deleted.
db_delete_all_alarms(table) == [k \in {} |-> table[k]]

db_delete_all_alarms_success(table) == DOMAIN table # {}

(***************************************************************************)
(* AlarmManager: the alarm thread list.                                    *)
(***************************************************************************)
\* Variant of get_all_active_alarms that deletes nothing from the list.
get_all_active_alarms_unfiltered(table) == get_all_enabled_alarms(table)

\* get_all_active_alarms: the enabled alarms without a repeat day are
\* deleted from the list, the others keep their order.
get_all_active_alarms(table) ==
    SelectSeq(get_all_enabled_alarms(table), LAMBDA k : any_day_enabled(table[k]))

\* alarm.next_alert of get_next_alarm, for an alarm with a repeat day.
next_alert(alarm, hour, minute, weekday) ==
    CHOOSE minutes \in minutes_to_alert(alarm, hour, minute, weekday) : TRUE

\* sorted(all_alarms, key=next_alert)[0]: the sort is stable, so the first
\* item is the first alarm of the list among those with the smallest key.
RECURSIVE SortedFirst(_, _, _, _, _, _, _)
SortedFirst(table, all_alarms, k, best, hour, minute, weekday) ==
    IF k > Len(all_alarms) THEN all_alarms[best]
    ELSE IF next_alert(table[all_alarms[k]], hour, minute, weekday)
                < next_alert(table[all_alarms[best]], hour, minute, weekday)
    THEN SortedFirst(table, all_alarms, k + 1, k, hour, minute, weekday)
    ELSE SortedFirst(table, all_alarms, k + 1, best, hour, minute, weekday)

\* Variant of get_next_alarm that does not sort the active alarms.
get_next_alarm_unsorted(table, hour, minute, weekday) ==
    LET all_alarms == get_all_active_alarms(table)
    IN  IF Len(all_alarms) > 0 THEN {all_alarms[1]} ELSE {}

\* get_next_alarm at local time hour:minute on weekday: the set holding the
\* identity of the alarm returned, empty for None.
get_next_alarm(table, hour, minute, weekday) ==
    LET all_alarms == get_all_active_alarms(table)
    IN  IF Len(all_alarms) > 0
        THEN {SortedFirst(table, all_alarms, 2, 1, hour, minute, weekday)}
        ELSE {}

\* is_alarm_running: isAlive() of the first thread with that identity.
RECURSIVE RunningFrom(_, _, _)
RunningFrom(ths, i, alarm_id) ==
    IF i > Len(ths) THEN FALSE
    ELSE IF ths[i].id = alarm_id THEN isAlive(ths[i])
    ELSE RunningFrom(ths, i + 1, alarm_id)

is_alarm_running(ths, alarm_id) == RunningFrom(ths, 1, alarm_id)

\* Variant of list_remove that takes the last thread off the list.
list_pop(ths, i) == SubSeq(ths, 1, Len(ths) - 1)

\* list.remove(alarm_thread) for the thread object at position i, which is
\* in the list once: that position goes.
list_remove(ths, i) == SubSeq(ths, 1, i - 1) \o SubSeq(ths, i + 1, Len(ths))

\* The for loop of __stop_alarm_thread.  The loop walks the list by position
\* while the body removes from it, so after a removal the walk goes on at
\* position i + 1 of the shortened list.
RECURSIVE StopLoop(_, _, _, _, _)
StopLoop(ths, i, alarm_id, coop, success) ==
    IF i > Len(ths) THEN [threads |-> ths, ret |-> success]
    ELSE IF ths[i].id = alarm_id
    THEN LET stopped == thread_stop(ths[i], coop)
             asked == [ths EXCEPT ![i] = stopped]
         IN  IF ~isAlive(stopped)
             THEN StopLoop(list_remove(asked, i), i + 1, alarm_id, coop, TRUE)
             ELSE StopLoop(asked, i + 1, alarm_id, coop, FALSE)
    ELSE StopLoop(ths, i + 1, alarm_id, coop, success)

\* Variant of stop_alarm_thread that takes the thread off the list whether
\* or not it has stopped: the reference to a thread still alive is dropped.
RECURSIVE StopLoopDropping(_, _, _, _, _)
StopLoopDropping(ths, i, alarm_id, coop, success) ==
    IF i > Len(ths) THEN [threads |-> ths, ret |-> success]
    ELSE IF ths[i].id = alarm_id
    THEN StopLoopDropping(list_remove(ths, i), i + 1, alarm_id, coop,
             ~isAlive(thread_stop(ths[i], coop)))
    ELSE StopLoopDropping(ths, i + 1, alarm_id, coop, success)

stop_alarm_thread_dropping(ths, alarm_id, coop) ==
    StopLoopDropping(ths, 1, alarm_id, coop, FALSE)

\* Variant of stop_alarm_thread that asks the thread to stop and leaves the
\* list as it is.
stop_alarm_thread_signalling(ths, alarm_id, coop) ==
    [threads |-> [k \in 1..Len(ths) |->
                     IF ths[k].id = alarm_id THEN thread_stop(ths[k], coop) ELSE ths[k]],
     ret |-> FALSE]

stop_alarm_thread(ths, alarm_id, coop) == StopLoop(ths, 1, alarm_id, coop, FALSE)

\* Position of the first thread with that identity, 0 when there is none.
RECURSIVE IndexFrom(_, _, _)
IndexFrom(ths, i, alarm_id) ==
    IF i > Len(ths) THEN 0
    ELSE IF ths[i].id = alarm_id THEN i
    ELSE IndexFrom(ths, i + 1, alarm_id)

thread_index(ths, alarm_id) == IndexFrom(ths, 1, alarm_id)

\* Variant of set_alarm_thread_found that replaces a thread that is alive:
\* the old thread is stopped and a new one takes its place.
set_alarm_thread_found_replacing(ths, i, alarm_id, alarm, coop) ==
    IF ~is_active(alarm)
    THEN [threads |-> stop_alarm_thread(ths, alarm_id, coop).threads, ret |-> FALSE]
    ELSE [threads |-> [ths EXCEPT ![i] = AlarmThread(alarm_id, alarm)], ret |-> TRUE]

\* Variant of set_alarm_thread_found that leaves the thread of an alarm that
\* is no longer active alone.
set_alarm_thread_found_unstopped(ths, i, alarm_id, alarm, coop) ==
    IF ~is_active(alarm)
    THEN [threads |-> ths, ret |-> FALSE]
    ELSE LET edited == thread_edit_alarm(ths[i], alarm)
             held == [ths EXCEPT ![i] = edited]
         IN  IF ~isAlive(edited)
             THEN [threads |-> [held EXCEPT ![i] = AlarmThread(alarm_id, alarm)],
                   ret |-> isAlive(edited)]
             ELSE [threads |-> held, ret |-> isAlive(edited)]

\* __set_alarm_thread, the branch taken when a thread with the identity is
\* already in the list (for ... if ... break).
set_alarm_thread_found(ths, i, alarm_id, alarm, coop) ==
    IF ~is_active(alarm)
    THEN [threads |-> stop_alarm_thread(ths, alarm_id, coop).threads, ret |-> FALSE]
    ELSE LET edited == thread_edit_alarm(ths[i], alarm)
             held == [ths EXCEPT ![i] = edited]
         IN  IF ~isAlive(edited)
             THEN [threads |->
                       [held EXCEPT ![i] = AlarmThread(alarm_id, alarm)],
                   \* thread_up reads isAlive() of the thread that was replaced
                   ret |-> isAlive(edited)]
             ELSE [threads |-> held, ret |-> isAlive(edited)]

\* Variant of set_alarm_thread_new that never puts a thread on the list.
set_alarm_thread_new_untracked(ths, alarm_id, alarm) ==
    [threads |-> ths, ret |-> is_active(alarm)]

\* __set_alarm_thread, the else branch of the for loop: no thread found.
set_alarm_thread_new(ths, alarm_id, alarm) ==
    IF is_active(alarm)
    THEN [threads |-> Append(ths, AlarmThread(alarm_id, alarm)),
          ret |-> TRUE]
    ELSE [threads |-> ths, ret |-> FALSE]

\* Variant of set_alarm_thread that does not look for a thread of the same
\* identity first.
set_alarm_thread_appending(ths, alarm_id, alarm, coop) ==
    set_alarm_thread_new(ths, alarm_id, alarm)

set_alarm_thread(ths, alarm_id, alarm, coop) ==
    IF thread_index(ths, alarm_id) # 0
    THEN set_alarm_thread_found(ths, thread_index(ths, alarm_id), alarm_id, alarm, coop)
    ELSE set_alarm_thread_new(ths, alarm_id, alarm)

\* __stop_all_alarm_threads: stop() on every thread, then the polling rounds
\* that delete every thread found dead; what is left when the rounds end
\* are the threads still alive at the bound.
RECURSIVE StopEach(_, _, _)
StopEach(ths, i, coop) ==
    IF i > Len(ths) THEN ths
    ELSE StopEach([ths EXCEPT ![i] = thread_stop(ths[i], coop)], i + 1, coop)

\* Variant of stop_all_alarm_threads whose polling rounds delete nothing.
stop_all_alarm_threads_keeping(ths, coop) ==
    LET left == StopEach(ths, 1, coop)
    IN  [threads |-> left, ret |-> (SelectSeq(left, isAlive) = <<>>)]

stop_all_alarm_threads(ths, coop) ==
    LET left == SelectSeq(StopEach(ths, 1, coop), isAlive)
    IN  [threads |-> left, ret |-> (left = <<>>)]

\* check_threads_state, first loop: every stored alarm in table order.
RECURSIVE CheckAlarms(_, _, _, _, _, _, _)
CheckAlarms(table, all_alarms, k, ths, coop, running_counter, previously_correct) ==
    IF k > Len(all_alarms)
    THEN [threads |-> ths, running_counter |-> running_counter,
          previously_correct |-> previously_correct]
    ELSE LET alarm_id == all_alarms[k]
             alarm == table[alarm_id]
         IN  IF is_active(alarm)
             THEN IF ~is_alarm_running(ths, alarm_id)
                  THEN CheckAlarms(table, all_alarms, k + 1,
                           set_alarm_thread(ths, alarm_id, alarm, coop).threads,
                           coop, running_counter + 1, FALSE)
                  ELSE CheckAlarms(table, all_alarms, k + 1, ths, coop,
                           running_counter + 1, previously_correct)
             ELSE IF is_alarm_running(ths, alarm_id)
                  THEN CheckAlarms(table, all_alarms, k + 1,
                           stop_alarm_thread(ths, alarm_id, coop).threads,
                           coop, running_counter, FALSE)
                  ELSE CheckAlarms(table, all_alarms, k + 1, ths, coop,
                           running_counter, previously_correct)

\* check_threads_state, second loop: the threads whose identity is not stored
\* are stopped; the list is walked by position while the body removes from it.
RECURSIVE CheckOrphans(_, _, _, _)
CheckOrphans(table, ths, i, coop) ==
    IF i > Len(ths) THEN ths
    ELSE IF ths[i].id \in DOMAIN table
    THEN CheckOrphans(table, ths, i + 1, coop)
    ELSE CheckOrphans(table, stop_alarm_thread(ths, ths[i].id, coop).threads, i + 1, coop)

\* Variant of check_threads_state that does not compare the length of the
\* list with the number of active alarms.
check_threads_state_uncounted(table, ths, coop) ==
    LET first == CheckAlarms(table, get_all_alarms(table), 1, ths, coop, 0, TRUE)
    IN  [threads |-> first.threads, ret |-> first.previously_correct]

check_threads_state(table, ths, coop) ==
    LET first == CheckAlarms(table, get_all_alarms(table), 1, ths, coop, 0, TRUE)
    IN  IF Len(first.threads) # first.running_counter
        THEN [threads |-> CheckOrphans(table, first.threads, 1, coop), ret |-> FALSE]
        ELSE [threads |-> first.threads, ret |-> first.previously_correct]

(***************************************************************************)
(* Inputs of the calls.                                                    *)
(***************************************************************************)
\* An absent argument (None) is the empty set, a supplied one a singleton.
NoArgs == [hour |-> {}, minute |-> {}, days |-> {}, enabled |-> {}, label |-> {}]

AddHours == {Value("int", 7), Value("int", 25)}
AddMinutes == {Value("int", 10)}
AddDays == {WeekDays}

EditInputs ==
    {[NoArgs EXCEPT !.hour = {h}] : h \in {10, 25}}
        \cup {[NoArgs EXCEPT !.enabled = {e}] : e \in BOOLEAN}
        \cup {[NoArgs EXCEPT !.hour = {25}, !.enabled = {FALSE}]}

\* The record of a call: its name, the identity and arguments it was given,
\* what it returned, and the name of the step before it.
Called(op, alarm_id, args, ret) ==
    [op |-> op, id |-> alarm_id, args |-> args, ret |-> ret, prev |-> last.op]

(***************************************************************************)
(* Initial state: AlarmManager.__init__ on an empty database.              *)
(***************************************************************************)
\* load_dummy_alarms: two disabled alarms; no active alarm, so no thread.
DummyAlarms ==
    db_add_alarm(
        db_add_alarm([k \in {} |-> NoArgs], AlarmItem(7, 10, WeekDays, FALSE)),
        AlarmItem(10, 30, WeekEnd, FALSE))

Init ==
    /\ db = DummyAlarms
    /\ threads = <<>>
    /\ last = [op |-> "init", id |-> 0, args |-> NoArgs, ret |-> TRUE, prev |-> "init"]
    /\ item = {}
    /\ callers = NoCallers

(***************************************************************************)
(* The calls on AlarmManager, one action per call.                         *)
(***************************************************************************)
AddArgs(hour, minute, days, enabled) ==
    [hour |-> {hour}, minute |-> {minute}, days |-> {days}, enabled |-> {enabled},
     label |-> {}]

\* add_alarm when the AlarmItem constructor yields None: None is returned.
AddAlarmRejected(hour, minute, days, enabled) ==
    /\ AlarmItemNew(hour, minute, days, enabled) = {}
    /\ threads' = Aged(threads)
    /\ UNCHANGED <<item, callers>>
    /\ last' = Called("add", 0, AddArgs(hour, minute, days, enabled), FALSE)
    /\ UNCHANGED db

\* add_alarm when the constructor yields an instance: the instance is stored,
\* takes the identity of its row and is handed to __set_alarm_thread.
AddAlarm(hour, minute, days, enabled, coop) ==
    /\ AlarmItemNew(hour, minute, days, enabled) # {}
    /\ NewRowId(db) <= MaxId
    /\ LET alarm == CHOOSE instance \in AlarmItemNew(hour, minute, days, enabled) : TRUE
           alarm_id == NewRowId(db)
       IN  /\ db' = db_add_alarm(db, alarm)
           /\ threads' = set_alarm_thread(Aged(threads), alarm_id, alarm, coop).threads
           /\ UNCHANGED <<item, callers>>
           /\ last' = Called("add", alarm_id, AddArgs(hour, minute, days, enabled), TRUE)

EditAlarm(alarm_id, args, coop) ==
    LET success == db_edit_alarm_success(db, alarm_id, args)
        table == db_edit_alarm(db, alarm_id, args)
    IN  /\ db' = table
        /\ threads' =
               IF success
               THEN set_alarm_thread(Aged(threads), alarm_id, table[alarm_id], coop).threads
               ELSE Aged(threads)
        /\ UNCHANGED <<item, callers>>
        /\ last' = Called("edit", alarm_id, args, success)

DeleteAlarm(alarm_id, coop) ==
    /\ db' = db_delete_alarm(db, alarm_id)
    /\ threads' = stop_alarm_thread(Aged(threads), alarm_id, coop).threads
    /\ UNCHANGED <<item, callers>>
    /\ last' = Called("delete", alarm_id, NoArgs, db_delete_alarm_success(db, alarm_id))

DeleteAllAlarms(coop) ==
    LET stop == stop_all_alarm_threads(Aged(threads), coop)
    IN  /\ db' = db_delete_all_alarms(db)
        /\ threads' = stop.threads
        /\ UNCHANGED <<item, callers>>
        /\ last' = Called("delete_all", 0, NoArgs,
                          stop.ret /\ db_delete_all_alarms_success(db))

CheckThreadsState(coop) ==
    LET check == check_threads_state(db, Aged(threads), coop)
    IN  /\ threads' = check.threads
        /\ UNCHANGED <<item, callers>>
        /\ last' = Called("check", 0, NoArgs, check.ret)
        /\ UNCHANGED db

\* The list get_running_alarms returns: get_alarm of the identity of every
\* thread of the list, None (the empty set) included.
running_alarms(table, ths) == [i \in 1..Len(ths) |-> get_alarm(table, ths[i].id)]

\* get_running_alarms: check_threads_state, then get_alarm of every thread.
GetRunningAlarms(coop) ==
    LET check == check_threads_state(db, Aged(threads), coop)
    IN  /\ threads' = check.threads
        /\ UNCHANGED <<item, callers>>
        /\ last' = Called("get_running", 0, NoArgs, check.ret)
        /\ UNCHANGED db

\* The private stop methods called on their own.
StopAlarmThread(alarm_id, coop) ==
    LET stop == stop_alarm_thread(Aged(threads), alarm_id, coop)
    IN  /\ threads' = stop.threads
        /\ UNCHANGED <<item, callers>>
        /\ last' = Called("stop_one", alarm_id, NoArgs, stop.ret)
        /\ UNCHANGED db

StopAllAlarmThreads(coop) ==
    LET stop == stop_all_alarm_threads(Aged(threads), coop)
    IN  /\ threads' = stop.threads
        /\ UNCHANGED <<item, callers>>
        /\ last' = Called("stop_all", 0, NoArgs, stop.ret)
        /\ UNCHANGED db

(***************************************************************************)
(* The timers' own steps (from the design description).                    *)
(***************************************************************************)
\* A timer dies silently while it is scheduled.
TimerDies(i) ==
    /\ i \in 1..Len(threads)
    /\ threads[i].state = "Scheduled"
    /\ threads' = [Aged(threads) EXCEPT ![i].state = "Stopped"]
    /\ UNCHANGED <<item, callers>>
    /\ last' = Called("timer", threads[i].id, NoArgs, TRUE)
    /\ UNCHANGED db

\* Variant of the poll in which the timer does not look at the stop flag.
TimerStopsUnseen(i) ==
    /\ i \in 1..Len(threads)
    /\ threads[i].state = "Stopping"
    /\ threads' = Aged(threads)
    /\ UNCHANGED <<item, callers>>
    /\ last' = Called("timer", threads[i].id, NoArgs, TRUE)
    /\ UNCHANGED db

\* A timer that was asked to stop sees the stop flag at a later poll.
TimerStops(i) ==
    /\ i \in 1..Len(threads)
    /\ threads[i].state = "Stopping"
    /\ threads' = [Aged(threads) EXCEPT ![i].state = "Stopped"]
    /\ UNCHANGED <<item, callers>>
    /\ last' = Called("timer", threads[i].id, NoArgs, TRUE)
    /\ UNCHANGED db

Next ==
    \/ \E h \in AddHours, m \in AddMinutes, d \in AddDays, e \in BOOLEAN :
           AddAlarmRejected(h, m, d, e)
    \/ \E h \in AddHours, m \in AddMinutes, d \in AddDays, e \in BOOLEAN :
           \E coop \in SUBSET AliveIds(threads) : AddAlarm(h, m, d, e, coop)
    \/ \E alarm_id \in Ids, args \in EditInputs :
           \E coop \in SUBSET AliveIds(threads) : EditAlarm(alarm_id, args, coop)
    \/ \E alarm_id \in Ids :
           \E coop \in SUBSET AliveIds(threads) : DeleteAlarm(alarm_id, coop)
    \/ \E coop \in SUBSET AliveIds(threads) : DeleteAllAlarms(coop)
    \/ \E coop \in SUBSET AliveIds(threads) : CheckThreadsState(coop)
    \/ \E coop \in SUBSET AliveIds(threads) : GetRunningAlarms(coop)
    \/ \E i \in 1..Len(threads) : TimerDies(i)
    \/ \E i \in 1..Len(threads) : TimerStops(i)

Spec == Init /\ [][Next]_vars

\* add_alarm called with fields of any type, between deletions that free an
\* identity.
AddTypedHours == AddHours \cup {Value("float", 0), Value("str", 7)}
AddTypedMinutes == AddMinutes \cup {Value("int", 60)}
AddTypedDays == {WeekDays, NoDays}

NextAdd ==
    \/ \E h \in AddTypedHours, m \in AddTypedMinutes, d \in AddTypedDays, e \in BOOLEAN :
           AddAlarmRejected(h, m, d, e)
    \/ \E h \in AddTypedHours, m \in AddTypedMinutes, d \in AddTypedDays, e \in BOOLEAN :
           \E coop \in SUBSET AliveIds(threads) : AddAlarm(h, m, d, e, coop)
    \/ \E alarm_id \in Ids :
           \E coop \in SUBSET AliveIds(threads) : DeleteAlarm(alarm_id, coop)
    \/ \E coop \in SUBSET AliveIds(threads) : DeleteAllAlarms(coop)
    \/ \E i \in 1..Len(threads) : TimerStops(i)

SpecAdd == Init /\ [][NextAdd]_vars

\* The same calls, with the private stop methods also called directly.
NextStop ==
    \/ Next
    \/ \E alarm_id \in Ids :
           \E coop \in SUBSET AliveIds(threads) : StopAlarmThread(alarm_id, coop)
    \/ \E coop \in SUBSET AliveIds(threads) : StopAllAlarmThreads(coop)

SpecStop == Init /\ [][NextStop]_vars

\* The AlarmItem objects handed to update_alarm.
UpdateAlarms == {AlarmItem(7, 10, WeekDays, enabled) : enabled \in BOOLEAN}

\* update_alarm(alarm), for an AlarmItem with the identity alarm_id: the
\* database is updated, the list of threads is not looked at.
UpdateAlarm(alarm_id, alarm) ==
    /\ db' = db_update_alarm(db, alarm_id, alarm)
    /\ threads' = Aged(threads)
    /\ UNCHANGED <<item, callers>>
    /\ last' = Called("update", alarm_id,
                      [hour |-> {alarm.hour}, minute |-> {alarm.minute},
                       days |-> {alarm.repeat}, enabled |-> {alarm.enabled},
                       label |-> {alarm.label}],
                      db_update_alarm_success(db, alarm_id))

\* The same calls, with update_alarm.
NextUpdate ==
    \/ Next
    \/ \E alarm_id \in Ids, alarm \in UpdateAlarms : UpdateAlarm(alarm_id, alarm)

SpecUpdate == Init /\ [][NextUpdate]_vars

\* __set_alarm_thread(alarm) called on its own, for the alarm stored under
\* alarm_id; its result is thread_up.
SetAlarmThread(alarm_id, coop) ==
    /\ alarm_id \in DOMAIN db
    /\ LET set == set_alarm_thread(Aged(threads), alarm_id, db[alarm_id], coop)
       IN  /\ threads' = set.threads
           /\ last' = Called("set_thread", alarm_id, NoArgs, set.ret)
    /\ UNCHANGED <<db, item, callers>>

\* The same calls, with __set_alarm_thread on its own.
NextSet ==
    \/ Next
    \/ \E alarm_id \in Ids :
           \E coop \in SUBSET AliveIds(threads) : SetAlarmThread(alarm_id, coop)

SpecSet == Init /\ [][NextSet]_vars

\* AlarmDb.get_number_of_alarms.
get_number_of_alarms(table) == Cardinality(DOMAIN table)

\* The for loop of __init__: __set_alarm_thread for every active alarm.
RECURSIVE RegisterAlarms(_, _, _, _)
RegisterAlarms(table, alarms, k, ths) ==
    IF k > Len(alarms) THEN ths
    ELSE RegisterAlarms(table, alarms, k + 1,
             set_alarm_thread(ths, alarms[k], table[alarms[k]], {}).threads)

\* AlarmManager(): a manager is constructed over the table as it is stored,
\* after the process that held the threads has ended.  Its list starts empty;
\* an empty table gets the dummy alarms; every active alarm is registered.
Construct ==
    LET table == IF get_number_of_alarms(db) = 0 THEN DummyAlarms ELSE db
    IN  /\ db' = table
        /\ threads' = RegisterAlarms(table, get_all_active_alarms(table), 1, <<>>)
        /\ UNCHANGED <<item, callers>>
        /\ last' = Called("construct", 0, NoArgs, TRUE)

\* The same calls, with the construction of a new manager.
NextConstruct ==
    \/ Next
    \/ Construct

SpecConstruct == Init /\ [][NextConstruct]_vars

(***************************************************************************)
(* An AlarmItem object on its own: construction, the hour and minute       *)
(* accessors and minutes_to_alert.                                         *)
(***************************************************************************)
HourInputs ==
    {Value("int", h) : h \in {-1, 0, 7, 23, 24}}
        \cup {Value("float", 0), Value("float", 7), Value("str", 7), Value("bool", 1)}

MinuteInputs ==
    {Value("int", m) : m \in {-1, 0, 59, 60}}
        \cup {Value("float", 0), Value("str", 0)}

AllRepeats == [1..7 -> BOOLEAN]

RefHours == {0, 7, 23}
RefMinutes == {0, 1, 59}
RefWeekdays == 0..6

EmptyTable == [k \in {} |-> NoArgs]

\* The record of a call on the AlarmItem object.
ItemCalled(op, args, ret) ==
    [op |-> op, id |-> 0, args |-> args, ret |-> ret, prev |-> "item"]

\* AlarmItem(hour, minute, days, enabled): the object, or None.
ItemInit ==
    /\ db = EmptyTable
    /\ threads = <<>>
    /\ callers = NoCallers
    /\ \E hour \in HourInputs, minute \in MinuteInputs,
          days \in AllRepeats, enabled \in BOOLEAN :
           /\ item = AlarmItemNew(hour, minute, days, enabled)
           /\ last = ItemCalled("new", AddArgs(hour, minute, days, enabled), item # {})

\* alarm.hour = new_hour
ItemSetHour(new_hour) ==
    /\ item # {}
    /\ item' = {set_hour(alarm, new_hour) : alarm \in item}
    /\ last' = ItemCalled("set_hour", [NoArgs EXCEPT !.hour = {new_hour}], TRUE)
    /\ UNCHANGED <<db, threads, callers>>

\* alarm.minute = new_minute
ItemSetMinute(new_minute) ==
    /\ item # {}
    /\ item' = {set_minute(alarm, new_minute) : alarm \in item}
    /\ last' = ItemCalled("set_minute", [NoArgs EXCEPT !.minute = {new_minute}], TRUE)
    /\ UNCHANGED <<db, threads, callers>>

\* alarm.minutes_to_alert(hour, minute, weekday)
ItemMinutesToAlert(hour, minute, weekday) ==
    /\ item # {}
    /\ \E alarm \in item :
           last' = ItemCalled("minutes_to_alert",
                       [hour |-> hour, minute |-> minute, weekday |-> weekday],
                       minutes_to_alert(alarm, hour, minute, weekday))
    /\ UNCHANGED <<db, threads, item, callers>>

ItemNext ==
    \/ \E new_hour \in HourInputs : ItemSetHour(new_hour)
    \/ \E new_minute \in MinuteInputs : ItemSetMinute(new_minute)
    \/ \E hour \in RefHours, minute \in RefMinutes, weekday \in RefWeekdays :
           ItemMinutesToAlert(hour, minute, weekday)

SpecItem == ItemInit /\ [][ItemNext]_vars

\* diff_alarm on an AlarmItem object, with and without an identity.
DiffHours == {0, 7, 23}
DiffMinutes == {0, 59}
DiffIds == {{}, {1}}

\* Repeat days: none, every single day, every pair of days, and all of them.
DiffRepeats ==
    {days \in AllRepeats : Cardinality({d \in 1..7 : days[d]}) \in {0, 1, 2, 7}}

\* The differences handed to diff_alarm.
MaxDifference == 61

DiffInputs ==
    {Value("int", d) : d \in -MaxDifference..MaxDifference}
        \cup {Value("float", 1), Value("bool", 1), Value("str", 1)}

\* AlarmItem(hour, minute, days, enabled, alarm_id=...): the object.
DiffInit ==
    /\ db = EmptyTable
    /\ threads = <<>>
    /\ callers = NoCallers
    /\ \E hour \in DiffHours, minute \in DiffMinutes,
          days \in DiffRepeats, enabled \in BOOLEAN, alarm_id \in DiffIds :
           /\ item = AlarmItemNew(Value("int", hour), Value("int", minute), days, enabled)
           /\ last = [op |-> "new", id |-> alarm_id, args |-> NoArgs, ret |-> {},
                      prev |-> "item"]

\* alarm.diff_alarm(min_difference)
ItemDiffAlarm(min_difference) ==
    /\ \E alarm \in item :
           last' = [op |-> "diff_alarm", id |-> last.id,
                    args |-> [min_difference |-> min_difference],
                    ret |-> diff_alarm(alarm, last.id, min_difference),
                    prev |-> "item"]
    /\ UNCHANGED <<db, threads, item, callers>>

DiffNext == \E min_difference \in DiffInputs : ItemDiffAlarm(min_difference)

SpecDiff == DiffInit /\ [][DiffNext]_vars

(***************************************************************************)
(* AlarmThread on its own (from the design description): the run loop of   *)
(* each of two timers, the stop() and edit_alarm() calls of their owner.   *)
(***************************************************************************)
MondayOnly == <<TRUE, FALSE, FALSE, FALSE, FALSE, FALSE, FALSE>>

\* The records the timers are started with or handed later.
TimerAlarms ==
    {AlarmItem(7, 0, MondayOnly, TRUE), AlarmItem(7, 0, WeekDays, TRUE),
     AlarmItem(7, 0, NoDays, TRUE)}

\* The wall-clock times (hour, minute, weekday) at which a timer computes.
TimerTimes == {<<7, 0, 0>>, <<7, 1, 0>>, <<23, 59, 6>>}

\* The weekdays on which an alert is observed, and the minutes the callback
\* takes.
TimerWeekdays == {0, 1}
TimerDelays == {0, 1}

\* What a step of the run loop did: the time it computed with, the callbacks
\* it invoked and whether one raised.
TimerArgs(hour, minute, weekday, callbacks, raised) ==
    [hour |-> {hour}, minute |-> {minute}, weekday |-> weekday,
     callbacks |-> callbacks, raised |-> raised]

\* start(): one started timer per identity.
TimerInit ==
    /\ db = EmptyTable
    /\ item = {}
    /\ callers = NoCallers
    /\ last = [op |-> "init", id |-> 0, args |-> NoArgs, ret |-> TRUE, prev |-> "init"]
    /\ \E alarms \in [Ids -> TimerAlarms] :
           threads = Aged([k \in 1..MaxId |-> AlarmThread(k, alarms[k])])

\* The run loop computes the minutes to the next alert at the current time.
TimerComputes(i, hour, minute, weekday) ==
    /\ i \in 1..Len(threads)
    /\ threads[i].state = "Scheduled"
    /\ LET minutes == minutes_to_alert(threads[i].alarm, hour, minute, weekday)
       IN  /\ threads' = [Aged(threads) EXCEPT
                              ![i] = thread_next_alert(Aged(threads)[i], minutes)]
           /\ last' = Called("compute", threads[i].id,
                             TimerArgs(hour, minute, weekday, {}, FALSE), minutes)
    /\ UNCHANGED <<db, item, callers>>

\* The alert is due: the current time is the time of the snapshot on one of
\* its repeat days.  on_alert runs, then the next alert is computed at the
\* time the callback has ended.
TimerFires(i, weekday, delay, raised) ==
    /\ i \in 1..Len(threads)
    /\ threads[i].state = "Scheduled"
    /\ threads[i].alarm.repeat[weekday + 1]
    /\ LET alarm == threads[i].alarm
           hour == alarm.hour
           minute == alarm.minute + delay
           minutes == minutes_to_alert(alarm, hour, minute, weekday)
       IN  /\ threads' = [Aged(threads) EXCEPT
                              ![i] = thread_next_alert(
                                         thread_callback(Aged(threads)[i], raised),
                                         minutes)]
           /\ last' = Called("alert", threads[i].id,
                             TimerArgs(hour, minute, weekday, {"on_alert"}, raised),
                             minutes)
    /\ UNCHANGED <<db, item, callers>>

\* The offset alert is due: on_offset_alert runs.
TimerOffsetFires(i, raised) ==
    /\ i \in 1..Len(threads)
    /\ threads[i].state = "Scheduled"
    /\ threads' = [Aged(threads) EXCEPT
                       ![i] = thread_callback(Aged(threads)[i], raised)]
    /\ last' = Called("offset_alert", threads[i].id,
                      [NoArgs EXCEPT !.enabled = {raised}], TRUE)
    /\ UNCHANGED <<db, item, callers>>

\* The owner calls stop() on a timer in its loop and does not wait.
TimerStopRequested(i) ==
    /\ i \in 1..Len(threads)
    /\ threads[i].state = "Scheduled"
    /\ threads' = [Aged(threads) EXCEPT ![i] = thread_stop(Aged(threads)[i], {})]
    /\ last' = Called("stop", threads[i].id, NoArgs, TRUE)
    /\ UNCHANGED <<db, item, callers>>

\* The owner hands a timer that is alive another record.
TimerEdited(i, alarm) ==
    /\ i \in 1..Len(threads)
    /\ isAlive(threads[i])
    /\ threads' = [Aged(threads) EXCEPT
                       ![i] = thread_edit_alarm(Aged(threads)[i], alarm)]
    /\ last' = Called("edit_alarm", threads[i].id, NoArgs, TRUE)
    /\ UNCHANGED <<db, item, callers>>

TimerNext ==
    \/ \E i \in 1..MaxId, time \in TimerTimes :
           TimerComputes(i, time[1], time[2], time[3])
    \/ \E i \in 1..MaxId, weekday \in TimerWeekdays, delay \in TimerDelays,
          raised \in BOOLEAN :
           TimerFires(i, weekday, delay, raised)
    \/ \E i \in 1..MaxId, raised \in BOOLEAN : TimerOffsetFires(i, raised)
    \/ \E i \in 1..MaxId : TimerStopRequested(i)
    \/ \E i \in 1..MaxId, alarm \in TimerAlarms : TimerEdited(i, alarm)
    \/ \E i \in 1..MaxId : TimerStops(i)
    \/ \E i \in 1..MaxId : TimerDies(i)

SpecTimer == TimerInit /\ [][TimerNext]_vars

\* The task of a timer is scheduled fairly: a timer that is asked to stop
\* gets to its next poll of the stop flag.
SpecTimerFair ==
    /\ TimerInit
    /\ [][TimerNext]_vars
    /\ \A i \in 1..MaxId : WF_vars(TimerStops(i))

(***************************************************************************)
(* AlarmDb on its own: the calls on the alarms table.                      *)
(***************************************************************************)
\* The AlarmItem objects handed to AlarmDb.add_alarm.
DbItems ==
    UNION {{set_label(alarm, label) :
                alarm \in AlarmItemNew(Value("int", 13), Value("int", 35), days, enabled)} :
           days \in {NoDays, WeekDays}, enabled \in BOOLEAN, label \in {"", "wake"}}

\* The arguments of AlarmDb.edit_alarm: one field, or several.
DbEditInputs ==
    {[NoArgs EXCEPT !.hour = {h}] : h \in {0, 25}}
        \cup {[NoArgs EXCEPT !.minute = {0}]}
        \cup {[NoArgs EXCEPT !.days = {WeekDays}]}
        \cup {[NoArgs EXCEPT !.enabled = {e}] : e \in BOOLEAN}
        \cup {[NoArgs EXCEPT !.label = {"wake"}]}
        \cup {[NoArgs EXCEPT !.hour = {0}, !.minute = {0}]}

\* The identities asked for: those of the rows, and one that no row gets.
DbIds == Ids \cup {MaxId + 1}

\* AlarmDb() on a new database file: no row.
DbInit ==
    /\ db = EmptyTable
    /\ threads = <<>>
    /\ item = {}
    /\ callers = NoCallers
    /\ last = [op |-> "db_init", id |-> 0, args |-> NoArgs, ret |-> TRUE, prev |-> "db_init"]

\* adh.add_alarm(alarm_item): returns the key of the new row.
DbAddAlarm(alarm) ==
    /\ NewRowId(db) <= MaxId
    /\ db' = db_add_alarm(db, alarm)
    /\ last' = Called("db_add", NewRowId(db),
                      [hour |-> {alarm.hour}, minute |-> {alarm.minute},
                       days |-> {alarm.repeat}, enabled |-> {alarm.enabled},
                       label |-> {alarm.label}],
                      {NewRowId(db)})
    /\ UNCHANGED <<threads, item, callers>>

\* adh.get_alarm(alarm_id)
DbGetAlarm(alarm_id) ==
    /\ last' = Called("db_get", alarm_id, NoArgs, get_alarm(db, alarm_id))
    /\ UNCHANGED <<db, threads, item, callers>>

\* adh.edit_alarm(alarm_id, ...)
DbEditAlarm(alarm_id, args) ==
    /\ db' = db_edit_alarm(db, alarm_id, args)
    /\ last' = Called("db_edit", alarm_id, args, db_edit_alarm_success(db, alarm_id, args))
    /\ UNCHANGED <<threads, item, callers>>

\* adh.delete_alarm(alarm_id)
DbDeleteAlarm(alarm_id) ==
    /\ db' = db_delete_alarm(db, alarm_id)
    /\ last' = Called("db_delete", alarm_id, NoArgs, db_delete_alarm_success(db, alarm_id))
    /\ UNCHANGED <<threads, item, callers>>

\* adh.delete_all_alarms()
DbDeleteAllAlarms ==
    /\ db' = db_delete_all_alarms(db)
    /\ last' = Called("db_delete_all", 0, NoArgs, db_delete_all_alarms_success(db))
    /\ UNCHANGED <<threads, item, callers>>

\* get_all_enabled_alarms(), get_all_disabled_alarms() and
\* get_all_active_alarms(), called one after the other on the same table:
\* the identities of the alarms of each list.
DbGetLists ==
    /\ last' = Called("db_lists", 0, NoArgs,
                   [enabled |-> get_all_enabled_alarms(db),
                    disabled |-> get_all_disabled_alarms(db),
                    active |-> get_all_active_alarms(db)])
    /\ UNCHANGED <<db, threads, item, callers>>

DbNext ==
    \/ \E alarm \in DbItems : DbAddAlarm(alarm)
    \/ \E alarm_id \in DbIds : DbGetAlarm(alarm_id)
    \/ \E alarm_id \in DbIds, args \in DbEditInputs : DbEditAlarm(alarm_id, args)
    \/ \E alarm_id \in DbIds : DbDeleteAlarm(alarm_id)
    \/ DbDeleteAllAlarms
    \/ DbGetLists

SpecDb == DbInit /\ [][DbNext]_vars

(***************************************************************************)
(* get_next_alarm on a table of stored alarms.                             *)
(***************************************************************************)
StoredTimes == {<<7, 0>>, <<7, 1>>, <<23, 59>>}
StoredRepeats ==
    {NoDays, WeekDays, WeekEnd,
     <<TRUE, FALSE, FALSE, FALSE, FALSE, FALSE, FALSE>>,
     <<FALSE, FALSE, FALSE, FALSE, FALSE, FALSE, TRUE>>}

StoredAlarms ==
    {AlarmItem(t[1], t[2], days, enabled) :
        t \in StoredTimes, days \in StoredRepeats, enabled \in BOOLEAN}

\* A table of alarms that add_alarm has stored, some of them deleted since.
StoredInit ==
    /\ \E rows \in SUBSET Ids : db \in [rows -> StoredAlarms]
    /\ threads = <<>>
    /\ item = {}
    /\ callers = NoCallers
    /\ last = [op |-> "init", id |-> 0, args |-> NoArgs, ret |-> TRUE, prev |-> "init"]

GetNextAlarm(hour, minute, weekday) ==
    /\ last' = [op |-> "get_next_alarm", id |-> 0,
                args |-> [hour |-> hour, minute |-> minute, weekday |-> weekday],
                ret |-> get_next_alarm(db, hour, minute, weekday), prev |-> "init"]
    /\ UNCHANGED <<db, threads, item, callers>>

StoredNext ==
    \E hour \in RefHours, minute \in RefMinutes, weekday \in RefWeekdays :
        GetNextAlarm(hour, minute, weekday)

SpecNextAlarm == StoredInit /\ [][StoredNext]_vars

(***************************************************************************)
(* Two callers inside __set_alarm_thread and __stop_alarm_thread at the    *)
(* same time.  The methods take no lock; a caller can be preempted between *)
(* the end of a for loop over the list and the statement after it, and     *)
(* while it sleeps in the wait of __stop_alarm_thread.                     *)
(***************************************************************************)
\* Longest thread list the callers are let to build.
MaxThreads == 3

Callers == {1, 2}

Idle == [pc |-> "idle", id |-> 0, pos |-> 0]

\* Two stored alarms, both active, each with its thread running: the state
\* after edit_alarm(1, enabled=True) and edit_alarm(2, enabled=True).
ConcInit ==
    /\ db = [k \in Ids |-> [DummyAlarms[k] EXCEPT !.enabled = TRUE]]
    /\ threads = [k \in 1..MaxId |->
                     [AlarmThread(k, [DummyAlarms[k] EXCEPT !.enabled = TRUE])
                         EXCEPT !.fresh = FALSE]]
    /\ callers = [c \in Callers |-> Idle]
    /\ item = {}
    /\ last = [op |-> "init", id |-> 0, args |-> NoArgs, ret |-> TRUE, prev |-> "init"]

\* __set_alarm_thread(alarm) for a stored active alarm, the for loop: a
\* thread of the identity is edited, or replaced when dead, inside the loop;
\* otherwise the loop ends without a break and the else branch is next.
ConcSetScan(c, alarm_id) ==
    /\ callers[c].pc = "idle"
    /\ alarm_id \in DOMAIN db
    /\ is_active(db[alarm_id])
    /\ IF thread_index(threads, alarm_id) # 0
       THEN /\ threads' = set_alarm_thread_found(threads, thread_index(threads, alarm_id),
                                                 alarm_id, db[alarm_id], {}).threads
            /\ UNCHANGED callers
       ELSE /\ Len(threads) + Cardinality({d \in Callers : callers[d].pc = "scanned"})
                  < MaxThreads
            /\ callers' = [callers EXCEPT ![c] = [pc |-> "scanned", id |-> alarm_id, pos |-> 0]]
            /\ UNCHANGED threads
    /\ UNCHANGED <<db, last, item>>

\* __set_alarm_thread, the else branch of the loop: a new thread is
\* appended and started.
ConcSetAppend(c) ==
    /\ callers[c].pc = "scanned"
    /\ threads' = set_alarm_thread_new(threads, callers[c].id, db[callers[c].id]).threads
    /\ callers' = [callers EXCEPT ![c] = Idle]
    /\ UNCHANGED <<db, last, item>>

\* __stop_alarm_thread(alarm_id) is entered: the for loop starts.
ConcStopBegin(c, alarm_id) ==
    /\ callers[c].pc = "idle"
    /\ callers' = [callers EXCEPT ![c] = [pc |-> "looping", id |-> alarm_id, pos |-> 1]]
    /\ UNCHANGED <<db, threads, last, item>>

\* The for loop of __stop_alarm_thread runs to the next thread of the
\* identity and calls stop() on it, or ends.
ConcStopSignal(c) ==
    /\ callers[c].pc = "looping"
    /\ LET i == IndexFrom(threads, callers[c].pos, callers[c].id)
       IN  IF i = 0
           THEN /\ callers' = [callers EXCEPT ![c] = Idle]
                /\ UNCHANGED threads
           ELSE /\ threads' = [threads EXCEPT ![i] = thread_stop(threads[i], {})]
                /\ callers' = [callers EXCEPT ![c].pc = "waiting", ![c].pos = i]
    /\ UNCHANGED <<db, last, item>>

\* Position of the thread that a waiting caller holds: the first thread of
\* the identity that was asked to stop; 0 when it is no longer in the list.
RECURSIVE HeldFrom(_, _, _)
HeldFrom(ths, i, alarm_id) ==
    IF i > Len(ths) THEN 0
    ELSE IF ths[i].id = alarm_id /\ ths[i].asked THEN i
    ELSE HeldFrom(ths, i + 1, alarm_id)

\* The wait of __stop_alarm_thread ends: a thread that is no longer alive
\* is removed from the list, and the loop goes on with the next position.
\* list.remove raises ValueError for a thread that another caller has
\* removed in the meantime: the call ends there.
ConcStopWaited(c) ==
    /\ callers[c].pc = "waiting"
    /\ LET j == HeldFrom(threads, 1, callers[c].id)
       IN  IF j = 0
           THEN /\ callers' = [callers EXCEPT ![c] = Idle]
                /\ UNCHANGED threads
           ELSE /\ threads' = IF isAlive(threads[j]) THEN threads
                                                     ELSE list_remove(threads, j)
                /\ callers' = [callers EXCEPT ![c].pc = "looping",
                                              ![c].pos = callers[c].pos + 1]
    /\ UNCHANGED <<db, last, item>>

\* A timer that was asked to stop sees the stop flag.
ConcTimerStops(i) ==
    /\ i \in 1..Len(threads)
    /\ threads[i].state = "Stopping"
    /\ threads' = [threads EXCEPT ![i].state = "Stopped"]
    /\ UNCHANGED <<db, last, item, callers>>

ConcNext ==
    \/ \E c \in Callers, alarm_id \in Ids : ConcSetScan(c, alarm_id)
    \/ \E c \in Callers : ConcSetAppend(c)
    \/ \E c \in Callers, alarm_id \in Ids : ConcStopBegin(c, alarm_id)
    \/ \E c \in Callers : ConcStopSignal(c)
    \/ \E c \in Callers : ConcStopWaited(c)
    \/ \E i \in 1..Len(threads) : ConcTimerStops(i)

SpecConc == ConcInit /\ [][ConcNext]_vars

(***************************************************************************)
(* The waits of the stop methods, poll by poll.  One caller runs            *)
(* __stop_alarm_thread or __stop_all_alarm_threads; each evaluation of a    *)
(* while condition with the body that follows it is one step, and a timer   *)
(* that was asked to stop may see the flag between any two of them, or      *)
(* never.                                                                   *)
(***************************************************************************)
\* while alarm_thread.isAlive() and (milliseconds_passed < 3000)
stop_alarm_thread_timeout == 3000

\* while continue_trying and (milliseconds_passed < 15000)
stop_all_alarm_threads_timeout == 15000

\* time.sleep(0.01), counted as 10 ms.
sleep_milliseconds == 10

\* Variant of the body of the waits that sleeps without counting the time.
sleep_uncounted(milliseconds_passed) == milliseconds_passed

\* time.sleep(0.01); milliseconds_passed += 10
sleep_and_count(milliseconds_passed) == milliseconds_passed + sleep_milliseconds

\* The local variables of the caller; nothing is held when no call runs.
PollIdle ==
    [pc |-> "idle", id |-> 0, pos |-> 0, milliseconds_passed |-> 0,
     continue_trying |-> FALSE, success |-> FALSE]

\* Two stored alarms, both active, each with its thread running.
PollInit ==
    /\ db = [k \in Ids |-> [DummyAlarms[k] EXCEPT !.enabled = TRUE]]
    /\ threads = [k \in 1..MaxId |->
                     [AlarmThread(k, [DummyAlarms[k] EXCEPT !.enabled = TRUE])
                         EXCEPT !.fresh = FALSE]]
    /\ callers = <<PollIdle>>
    /\ item = {}
    /\ last = [op |-> "init", id |-> 0, args |-> NoArgs, ret |-> TRUE, prev |-> "init"]

\* __stop_alarm_thread(alarm_id) is called: success = False, the for loop
\* starts.
PollStopOneBegin(alarm_id) ==
    /\ callers[1].pc = "idle"
    /\ callers' = <<[PollIdle EXCEPT !.pc = "stop_one_loop", !.id = alarm_id, !.pos = 1]>>
    /\ UNCHANGED <<db, threads, last, item>>

\* The for loop runs to the next thread of the identity, calls stop() on it
\* and sets milliseconds_passed = 0; or it ends and success is returned.
PollStopOneLoop ==
    /\ callers[1].pc = "stop_one_loop"
    /\ LET i == IndexFrom(threads, callers[1].pos, callers[1].id)
       IN  IF i = 0
           THEN /\ callers' = <<PollIdle>>
                /\ last' = Called("stop_one", callers[1].id, NoArgs, callers[1].success)
                /\ UNCHANGED threads
           ELSE /\ threads' = [threads EXCEPT ![i] = thread_stop(threads[i], {})]
                /\ callers' = <<[callers[1] EXCEPT !.pc = "stop_one_wait", !.pos = i,
                                                   !.milliseconds_passed = 0]>>
                /\ UNCHANGED last
    /\ UNCHANGED <<db, item>>

\* One evaluation of the while condition of __stop_alarm_thread: the body
\* sleeps and counts, or the loop ends, success is read from isAlive() and
\* a thread that has stopped is removed from the list.
PollStopOneWait ==
    /\ callers[1].pc = "stop_one_wait"
    /\ LET alarm_thread == threads[callers[1].pos]
       IN  IF isAlive(alarm_thread)
                  /\ callers[1].milliseconds_passed < stop_alarm_thread_timeout
           THEN /\ callers' = <<[callers[1] EXCEPT !.milliseconds_passed =
                                     sleep_and_count(callers[1].milliseconds_passed)]>>
                /\ UNCHANGED threads
           ELSE /\ threads' = IF isAlive(alarm_thread) THEN threads
                                ELSE list_remove(threads, callers[1].pos)
                /\ callers' = <<[callers[1] EXCEPT !.pc = "stop_one_loop",
                                                   !.pos = callers[1].pos + 1,
                                                   !.success = ~isAlive(alarm_thread)]>>
    /\ UNCHANGED <<db, last, item>>

\* __stop_all_alarm_threads is called: stop() on every thread, then
\* milliseconds_passed = 0 and continue_trying = True.
PollStopAllBegin ==
    /\ callers[1].pc = "idle"
    /\ threads' = StopEach(threads, 1, {})
    /\ callers' = <<[PollIdle EXCEPT !.pc = "stop_all_wait", !.continue_trying = TRUE]>>
    /\ UNCHANGED <<db, last, item>>

\* One evaluation of the while condition of __stop_all_alarm_threads: a
\* round deletes the threads found dead, notes whether one is alive, sleeps
\* and counts; or the loop ends and the emptiness of the list is returned.
PollStopAllRound ==
    /\ callers[1].pc = "stop_all_wait"
    /\ IF callers[1].continue_trying
            /\ callers[1].milliseconds_passed < stop_all_alarm_threads_timeout
       THEN /\ threads' = SelectSeq(threads, isAlive)
            /\ callers' = <<[callers[1] EXCEPT
                                !.continue_trying = (SelectSeq(threads, isAlive) # <<>>),
                                !.milliseconds_passed =
                                    sleep_and_count(callers[1].milliseconds_passed)]>>
            /\ UNCHANGED last
       ELSE /\ callers' = <<PollIdle>>
            /\ last' = Called("stop_all", 0, NoArgs, threads = <<>>)
            /\ UNCHANGED threads
    /\ UNCHANGED <<db, item>>

\* A timer that was asked to stop sees the stop flag.
PollTimerStops(i) ==
    /\ i \in 1..Len(threads)
    /\ threads[i].state = "Stopping"
    /\ threads' = [threads EXCEPT ![i].state = "Stopped"]
    /\ UNCHANGED <<db, last, item, callers>>

\* The steps of the caller inside a call.
PollStep ==
    \/ PollStopOneLoop
    \/ PollStopOneWait
    \/ PollStopAllRound

PollNext ==
    \/ \E alarm_id \in Ids : PollStopOneBegin(alarm_id)
    \/ PollStopAllBegin
    \/ PollStep
    \/ \E i \in 1..Len(threads) : PollTimerStops(i)

SpecPoll == PollInit /\ [][PollNext]_vars

\* The caller is a running thread: sleep returns and its next step is taken.
\* Nothing is assumed of the timers.
SpecPollFair == SpecPoll /\ WF_vars(PollStep)

(***************************************************************************)
(* Vocabulary of the properties.                                           *)
(***************************************************************************)
Tracked(ths, alarm_id) == thread_index(ths, alarm_id) # 0

\* The first thread with that identity, for an identity that is tracked.
ThreadOf(ths, alarm_id) == ths[thread_index(ths, alarm_id)]

\* The stored alarm with that identity is active.
Active(table, alarm_id) == alarm_id \in DOMAIN table /\ is_active(table[alarm_id])

\* A thread the last call asked to stop was still alive when its wait ended.
TimedOut(ths) == \E k \in 1..Len(ths) : ths[k].asked /\ isAlive(ths[k])

RunningCount(ths) == Cardinality({k \in 1..Len(ths) : isAlive(ths[k])})

ActiveCount(table) == Cardinality({k \in DOMAIN table : is_active(table[k])})

(***************************************************************************)
(* C1: editing the time of an active alarm with a live timer.              *)
(***************************************************************************)
\* The step of C1: a successful edit_alarm that supplies the hour or the
\* minute, for an alarm that is active with a live timer before the call and
\* still active after it.
C1_EditTimeStep ==
    /\ last'.op = "edit"
    /\ last'.ret = TRUE
    /\ (last'.args.hour # {} \/ last'.args.minute # {})
    /\ Active(db, last'.id)
    /\ is_alarm_running(threads, last'.id)
    /\ Active(db', last'.id)

C2_DeactivateStep ==
    /\ last'.op = "edit"
    /\ last'.ret = TRUE
    /\ Active(db, last'.id)
    /\ ~Active(db', last'.id)

\* C2 as stated: is_alarm_running(id) is false after the call, in every case.
C2_NeverRunning ==
    [][C2_DeactivateStep => ~is_alarm_running(threads', last'.id)]_vars

\* C2 as amended: after the call either no timer of that identity is in the
\* live set (it stopped within the wait, or was dead, and was removed), or
\* the timer was asked to stop, was still alive when the wait ended and is
\* left in the live set, so that is_alarm_running(id) is still true.
C2_StoppedOrLeftTracked ==
    [][C2_DeactivateStep =>
          \/ ~Tracked(threads', last'.id)
          \/ /\ ThreadOf(threads', last'.id).state = "Stopping"
             /\ ThreadOf(threads', last'.id).asked
             /\ Tracked(threads, last'.id)]_vars

\* An edit has disabled an alarm whose timer was asked to stop and is still
\* alive and tracked.
C2_Witness ==
    /\ last.op = "edit"
    /\ last.ret = TRUE
    /\ last.args.enabled = {FALSE}
    /\ ~Active(db, last.id)
    /\ Tracked(threads, last.id)
    /\ ThreadOf(threads, last.id).asked
    /\ ThreadOf(threads, last.id).state = "Stopping"

(***************************************************************************)
(* C3: check_threads_state called twice in a row.                          *)
(***************************************************************************)
\* C3 as stated, for timers that stop within the bound when asked: when a
\* check_threads_state call directly follows another one, nothing having
\* touched the database or the timers in between, the second returns true.
C3_SecondCheckTrue ==
    [][(/\ last.op = "check"
        /\ last'.op = "check"
        /\ ~TimedOut(threads)
        /\ ~TimedOut(threads')) => last'.ret = TRUE]_vars

(***************************************************************************)
(* C4: stop_all followed by check_threads_state, every alarm active.       *)
(***************************************************************************)
\* The step of C4: check_threads_state is called right after
\* __stop_all_alarm_threads, and every stored alarm is active.
C4_CheckAfterStopAllStep ==
    /\ last.op = "stop_all"
    /\ last'.op = "check"
    /\ \A k \in DOMAIN db : is_active(db[k])

C5_OneTimerPerIdentity ==
    \A i, j \in 1..Len(threads) : i # j => threads[i].id # threads[j].id

\* Two alarms are tracked and a call that found a thread of an identity
\* already in the list has just put a new thread in its place.
C5_Witness ==
    /\ Len(threads) = 2
    /\ last.op \in {"edit", "check"}
    /\ \E k \in 1..Len(threads) : threads[k].fresh /\ k < Len(threads)

(***************************************************************************)
(* C6: only active alarms have a running timer after a mutating call.      *)
(***************************************************************************)
\* C6 as stated, for the timers that have not been asked to stop: after
\* add_alarm, edit_alarm, delete_alarm or delete_all_alarms has returned,
\* whatever its result, every such timer in the live set belongs to a stored
\* alarm that is active.
C6_RunningOnlyIfActive ==
    last.op \in {"add", "edit", "delete", "delete_all"} =>
        \A k \in 1..Len(threads) :
            threads[k].state = "Scheduled" => Active(db, threads[k].id)

(***************************************************************************)
(* C7, C8: the live set after check_threads_state.                         *)
(***************************************************************************)
\* C7 as stated: after check_threads_state has returned, no timer it asked
\* to stop having been alive at the bound, every stored active alarm has a
\* live timer and no stored inactive alarm has a timer in the live set,
\* alive or dead.
C7_LiveSetMatchesStorage ==
    (last.op = "check" /\ ~TimedOut(threads)) =>
        \A k \in DOMAIN db :
            /\ is_active(db[k]) => is_alarm_running(threads, k)
            /\ ~is_active(db[k]) => ~Tracked(threads, k)

\* C8 as stated: after a single check_threads_state has returned, no timer
\* it asked to stop having been alive at the bound, every timer of the live
\* set has a stored alarm.
C8_NoOrphanLeft ==
    (last.op = "check" /\ ~TimedOut(threads)) =>
        \A k \in 1..Len(threads) : threads[k].id \in DOMAIN db

(***************************************************************************)
(* C9: what check_threads_state returns.                                   *)
(***************************************************************************)
\* The state is consistent: every stored active alarm has a live timer, no
\* stored inactive alarm has a live timer, and no other timer is tracked.
Consistent(table, ths) ==
    /\ \A k \in DOMAIN table : is_active(table[k]) => is_alarm_running(ths, k)
    /\ \A k \in DOMAIN table : ~is_active(table[k]) => ~is_alarm_running(ths, k)
    /\ \A i \in 1..Len(ths) : Active(table, ths[i].id) /\ isAlive(ths[i])

\* C9: check_threads_state returns true exactly when the state it was called
\* in was consistent, and when it returns true the list of threads is as it
\* was: nothing started, stopped or removed.
C9_TrueIffConsistentBefore ==
    [][last'.op = "check" =>
          /\ (last'.ret = TRUE) <=> Consistent(db, threads)
          /\ (last'.ret = TRUE) => threads' = Aged(threads)]_vars

\* check_threads_state has returned true with a timer running.
C9_Witness ==
    /\ last.op = "check"
    /\ last.ret = TRUE
    /\ Len(threads) >= 1
    /\ Consistent(db, threads)

(***************************************************************************)
(* C10: __stop_alarm_thread.                                               *)
(***************************************************************************)
\* C10: for an identity with no thread the call returns false and leaves the
\* list alone; otherwise it returns true exactly when the thread is off the
\* list after the call, and a thread still alive at the bound stays at its
\* place in the list, stop requested, with false returned.
C10_StopOneRemovesIffStopped ==
    [][last'.op = "stop_one" =>
          IF ~Tracked(threads, last'.id)
          THEN last'.ret = FALSE /\ threads' = Aged(threads)
          ELSE LET i == thread_index(threads, last'.id)
               IN  /\ (last'.ret = TRUE) <=> ~Tracked(threads', last'.id)
                   /\ (last'.ret = TRUE) =>
                          threads' = SubSeq(Aged(threads), 1, i - 1)
                                         \o SubSeq(Aged(threads), i + 1, Len(threads))
                   /\ (last'.ret = FALSE) =>
                          threads' = [Aged(threads) EXCEPT
                                         ![i].state = "Stopping", ![i].asked = TRUE]]_vars

\* __stop_alarm_thread has returned false for a thread that it asked to stop
\* and that is still alive: the thread is still in the list.
C10_Witness ==
    /\ last.op = "stop_one"
    /\ last.ret = FALSE
    /\ Tracked(threads, last.id)
    /\ ThreadOf(threads, last.id).asked
    /\ ThreadOf(threads, last.id).state = "Stopping"

(***************************************************************************)
(* C11: __stop_all_alarm_threads.                                          *)
(***************************************************************************)
\* C11: when __stop_all_alarm_threads returns, every thread left in the list
\* was alive before the call, has been asked to stop and is still alive (it
\* is stopping); the threads left keep their order and no thread found dead
\* is left; the call returns true exactly when the list is empty.
C11_StopAllRemovesTheDead ==
    [][last'.op = "stop_all" =>
          /\ \A k \in 1..Len(threads') :
                 /\ threads'[k].asked
                 /\ threads'[k].state = "Stopping"
                 /\ \E j \in 1..Len(threads) :
                        /\ isAlive(threads[j])
                        /\ threads'[k] = [Aged(threads)[j] EXCEPT
                                             !.state = "Stopping", !.asked = TRUE]
          /\ \A k, l \in 1..Len(threads') :
                 k < l => thread_index(threads, threads'[k].id)
                              < thread_index(threads, threads'[l].id)
          /\ (last'.ret = TRUE) <=> (threads' = <<>>)]_vars

\* __stop_all_alarm_threads has returned false: of the two threads of two
\* active alarms one has stopped and is gone, the other is still in the
\* list, asked to stop and alive.
C11_Witness ==
    /\ last.op = "stop_all"
    /\ last.ret = FALSE
    /\ ActiveCount(db) = 2
    /\ Len(threads) = 1
    /\ threads[1].asked
    /\ threads[1].state = "Stopping"

(***************************************************************************)
(* C12 to C15: minutes_to_alert.                                           *)
(***************************************************************************)
\* The alarm that minutes_to_alert was last called on.
TheItem == CHOOSE alarm \in item : TRUE

DayMinute(hour, minute) == minute + (hour * 60)

\* C12: for an alarm with at least one repeat day, whatever the reference
\* hour, minute and weekday, minutes_to_alert returns an integer from 0 to
\* 10079 (7 * 1440 - 1).
C12_WithinOneWeek ==
    (last.op = "minutes_to_alert" /\ any_day_enabled(TheItem)) =>
        /\ last.ret # {}
        /\ \A minutes \in last.ret : 0 <= minutes /\ minutes <= 7 * 1440 - 1

\* minutes_to_alert has returned 10079 for a day found six days ahead.
C12_Witness ==
    /\ last.op = "minutes_to_alert"
    /\ any_day_enabled(TheItem)
    /\ ~TheItem.repeat[last.args.weekday + 1]
    /\ last.ret = {10079}

\* C13: for an alarm with no repeat day, enabled or not, minutes_to_alert
\* returns None whatever the reference hour, minute and weekday.
C13_NoneWithoutRepeatDay ==
    (last.op = "minutes_to_alert" /\ ~any_day_enabled(TheItem)) => last.ret = {}

\* minutes_to_alert has returned None for an enabled alarm with no repeat
\* day whose time is before the reference time.
C13_Witness ==
    /\ last.op = "minutes_to_alert"
    /\ ~any_day_enabled(TheItem)
    /\ TheItem.enabled
    /\ DayMinute(TheItem.hour, TheItem.minute)
           < DayMinute(last.args.hour, last.args.minute)
    /\ last.ret = {}

\* C14: when the alarm repeats on the reference weekday and its time is the
\* reference time, minutes_to_alert returns 0; when the reference weekday is
\* the alarm's only repeat day and the reference time is one minute after
\* the alarm's time, it returns 10079.
C14_BoundaryTie ==
    last.op = "minutes_to_alert" =>
        LET alarm_day_minute == DayMinute(TheItem.hour, TheItem.minute)
            ref_day_minute == DayMinute(last.args.hour, last.args.minute)
            weekday == last.args.weekday
        IN  /\ (TheItem.repeat[weekday + 1] /\ alarm_day_minute = ref_day_minute)
                   => last.ret = {0}
            /\ (/\ \A k \in 1..7 : TheItem.repeat[k] <=> (k = weekday + 1)
                /\ ref_day_minute = alarm_day_minute + 1)
                   => last.ret = {10079}

\* minutes_to_alert has returned 10079 for an alarm at 07:00 that repeats on
\* Monday only, the reference being Monday 07:01.
C14_Witness ==
    /\ last.op = "minutes_to_alert"
    /\ TheItem.hour = 7 /\ TheItem.minute = 0
    /\ \A k \in 1..7 : TheItem.repeat[k] <=> (k = 1)
    /\ last.args = [hour |-> 7, minute |-> 1, weekday |-> 0]
    /\ last.ret = {10079}

\* The number of days from the reference weekday to the first repeat day
\* after it, the reference weekday itself excluded; 0 when there is none.
RECURSIVE DaysAhead(_, _, _)
DaysAhead(repeat, weekday, k) ==
    IF k > 6 THEN 0
    ELSE IF repeat[((weekday + k) % 7) + 1] THEN k
    ELSE DaysAhead(repeat, weekday, k + 1)

\* C15 as stated: when the first repeat day after the reference weekday is k
\* days ahead, minutes_to_alert returns k * 1440 plus the alarm's day-minute
\* minus the reference day-minute.
C15_DaysAheadPlusMinutes ==
    (last.op = "minutes_to_alert" /\ DaysAhead(TheItem.repeat, last.args.weekday, 1) # 0) =>
        last.ret = {DaysAhead(TheItem.repeat, last.args.weekday, 1) * 1440
                       + DayMinute(TheItem.hour, TheItem.minute)
                       - DayMinute(last.args.hour, last.args.minute)}

\* C15 as amended: the same, unless the alarm repeats on the reference
\* weekday and its day-minute is not before the reference day-minute (the
\* alarm is then due the same day).
C15_DaysAheadUnlessSameDay ==
    (/\ last.op = "minutes_to_alert"
     /\ DaysAhead(TheItem.repeat, last.args.weekday, 1) # 0
     /\ ~(/\ TheItem.repeat[last.args.weekday + 1]
          /\ DayMinute(TheItem.hour, TheItem.minute)
                 >= DayMinute(last.args.hour, last.args.minute))) =>
        last.ret = {DaysAhead(TheItem.repeat, last.args.weekday, 1) * 1440
                       + DayMinute(TheItem.hour, TheItem.minute)
                       - DayMinute(last.args.hour, last.args.minute)}

\* minutes_to_alert has returned 1 for an alarm at 00:00 that repeats on
\* Monday only, the reference being Sunday 23:59.
C15_Witness ==
    /\ last.op = "minutes_to_alert"
    /\ TheItem.hour = 0 /\ TheItem.minute = 0
    /\ \A k \in 1..7 : TheItem.repeat[k] <=> (k = 1)
    /\ last.args = [hour |-> 23, minute |-> 59, weekday |-> 6]
    /\ last.ret = {1}

(***************************************************************************)
(* C18: the hour and the minute of an AlarmItem.                           *)
(***************************************************************************)
\* The accessor has to reject the value: it is no integer, or it is outside
\* the range.
Rejected(v, InRange(_)) == ~(IsInt(v) /\ InRange(v.val))

\* C18 as stated, for the object and its construction: the hour of an
\* AlarmItem is in 0..23 and its minute in 0..59, and a construction in
\* which the hour or the minute has to be rejected yields no object.
C18_InRangeOrNoRecord ==
    /\ \A alarm \in item : ValidHour(alarm.hour) /\ ValidMinute(alarm.minute)
    /\ last.op = "new" =>
           ((\/ \E hour \in last.args.hour : Rejected(hour, ValidHour)
             \/ \E minute \in last.args.minute : Rejected(minute, ValidMinute))
                => item = {})

(***************************************************************************)
(* C16: get_next_alarm.                                                    *)
(***************************************************************************)
\* C16: get_next_alarm returns None when no stored alarm is active;
\* otherwise it returns a stored active alarm whose minutes_to_alert, taken
\* for the one reference time of the call, is not larger than that of any
\* other active alarm.
C16_NextAlarmIsEarliest ==
    last.op = "get_next_alarm" =>
        IF ActiveCount(db) = 0 THEN last.ret = {}
        ELSE /\ Cardinality(last.ret) = 1
             /\ \A k \in last.ret :
                    /\ Active(db, k)
                    /\ \A other \in DOMAIN db :
                           Active(db, other) =>
                               \A mine \in minutes_to_alert(db[k], last.args.hour,
                                               last.args.minute, last.args.weekday),
                                  theirs \in minutes_to_alert(db[other], last.args.hour,
                                               last.args.minute, last.args.weekday) :
                                   mine <= theirs

\* Two alarms are active and get_next_alarm has returned the second one of
\* the table, which is due strictly earlier than the first.
C16_Witness ==
    /\ last.op = "get_next_alarm"
    /\ ActiveCount(db) = 2
    /\ last.ret = {2}
    /\ next_alert(db[2], last.args.hour, last.args.minute, last.args.weekday)
           < next_alert(db[1], last.args.hour, last.args.minute, last.args.weekday)

(***************************************************************************)
(* C17: edit_alarm with a field that the sanitation rejects.               *)
(***************************************************************************)
\* C17 as stated: an edit_alarm call of a stored alarm in which a supplied
\* field is rejected returns False and leaves every field of every stored
\* alarm as it was.
C17_RejectedEditKeepsRecord ==
    [][(/\ last'.op = "edit"
        /\ last'.id \in DOMAIN db
        /\ \/ \E hour \in last'.args.hour : ~ValidHour(hour)
           \/ \E minute \in last'.args.minute : ~ValidMinute(minute)
           \/ \E days \in last'.args.days : ~ValidRepeat(days)) =>
          /\ last'.ret = FALSE
          /\ db' = db]_vars

C19_AsIfMutuallyExclusive ==
    (\A c \in Callers : callers[c].pc = "idle") =>
        \A i, j \in 1..Len(threads) : i # j => threads[i].id # threads[j].id

(***************************************************************************)
(* C21: add_alarm.                                                         *)
(***************************************************************************)
\* C21 as stated: add_alarm with a valid hour, minute and list of days
\* stores the record under a new identity and returns that identity, an
\* active record has a started thread in the list and an inactive one has
\* none; add_alarm with an invalid field returns None, stores nothing and
\* starts no thread.
C21_AddStoresOrRejects ==
    [][last'.op = "add" =>
          LET hour == CHOOSE h \in last'.args.hour : TRUE
              minute == CHOOSE m \in last'.args.minute : TRUE
              days == CHOOSE d \in last'.args.days : TRUE
              enabled == CHOOSE e \in last'.args.enabled : TRUE
              valid ==
                  /\ IsInt(hour)
                  /\ IsInt(minute)
                  /\ AlarmItemValid(hour.val, minute.val, days)
          IN  IF valid
              THEN /\ last'.ret = TRUE
                   /\ last'.id \notin DOMAIN db
                   /\ DOMAIN db' = DOMAIN db \cup {last'.id}
                   /\ \A k \in DOMAIN db : db'[k] = db[k]
                   /\ db'[last'.id] = AlarmItem(hour.val, minute.val, days, enabled)
                   /\ is_active(db'[last'.id]) =>
                          /\ Tracked(threads', last'.id)
                          /\ ThreadOf(threads', last'.id).state = "Scheduled"
                   /\ ~is_active(db'[last'.id]) => ~Tracked(threads', last'.id)
              ELSE /\ last'.ret = FALSE
                   /\ db' = db
                   /\ threads' = Aged(threads)]_vars

(***************************************************************************)
(* C26: the next occurrence computed right after an alert.                 *)
(***************************************************************************)
\* minutes_to_alert was called as a timer calls it after its alert: the
\* alarm repeats on the reference weekday and its time is the reference time
\* or before it.
C26_AfterAlert ==
    /\ last.op = "minutes_to_alert"
    /\ TheItem.repeat[last.args.weekday + 1]
    /\ DayMinute(last.args.hour, last.args.minute)
           >= DayMinute(TheItem.hour, TheItem.minute)

\* C26 as stated: the next occurrence that minutes_to_alert gives right
\* after the alert is at least 10080 minutes away, whatever the repeat days.
C26_AtLeastOneWeekAway ==
    C26_AfterAlert =>
        /\ last.ret # {}
        /\ \A minutes \in last.ret : minutes >= 7 * 1440

\* C26 as amended: right after the alert minutes_to_alert gives 0 while the
\* reference time is still the alarm's minute; once e minutes have passed it
\* gives k * 1440 - e when the next repeat day is k days ahead (k from 1 to
\* 6), and 10080 - e when the day of the alert is the only repeat day: less
\* than 10080 in every case.
C26_LessThanOneWeekAway ==
    C26_AfterAlert =>
        LET elapsed == DayMinute(last.args.hour, last.args.minute)
                           - DayMinute(TheItem.hour, TheItem.minute)
            ahead == DaysAhead(TheItem.repeat, last.args.weekday, 1)
        IN  last.ret = {IF elapsed = 0 THEN 0
                        ELSE IF ahead = 0 THEN 7 * 1440 - elapsed
                        ELSE ahead * 1440 - elapsed}

\* minutes_to_alert has returned 1439 for an alarm at 07:00 that repeats on
\* Monday and Tuesday, the reference being Monday 07:01.
C26_Witness ==
    /\ C26_AfterAlert
    /\ TheItem.hour = 7 /\ TheItem.minute = 0
    /\ \A k \in 1..7 : TheItem.repeat[k] <=> (k \in {1, 2})
    /\ last.args = [hour |-> 7, minute |-> 1, weekday |-> 0]
    /\ last.ret = {1439}

C25_StopIsEventuallyObserved ==
    /\ \A i \in 1..MaxId :
           (threads[i].state = "Stopping") ~> (threads[i].state = "Stopped")
    /\ [][\A i \in 1..MaxId :
              (threads[i].state = "Stopping" /\ threads'[i].state # "Stopping") =>
                  /\ threads'[i].state = "Stopped"
                  /\ last'.op = "timer"
                  /\ last'.id = threads[i].id]_vars

\* A timer that stop() was called on has polled the stop flag in the next
\* step and is Stopped; no other timer is Stopping or Stopped.
C25_Witness ==
    /\ last.op = "timer"
    /\ last.prev = "stop"
    /\ ThreadOf(threads, last.id).state = "Stopped"
    /\ \A i \in 1..Len(threads) :
           threads[i].id # last.id => threads[i].state = "Scheduled"

Supplied(args) ==
    {f \in {"hour", "minute", "days", "enabled", "label"} : args[f] # {}}

\* C28: edit_alarm of a stored alarm with one field supplied writes that
\* field when the sanitation takes the value and returns True, leaves every
\* other field of the row as it was, and leaves every other row as it was.
C28_SingleFieldEdit ==
    [][(/\ last'.op = "db_edit"
        /\ last'.id \in DOMAIN db
        /\ Cardinality(Supplied(last'.args)) = 1) =>
          LET args == last'.args
              old == db[last'.id]
              new == db'[last'.id]
              taken ==
                  /\ \A h \in args.hour : ValidHour(h)
                  /\ \A m \in args.minute : ValidMinute(m)
                  /\ \A d \in args.days : ValidRepeat(d)
          IN  /\ DOMAIN db' = DOMAIN db
              /\ \A k \in DOMAIN db : k # last'.id => db'[k] = db[k]
              /\ last'.ret = taken
              /\ new.hour \in (IF taken /\ args.hour # {} THEN args.hour ELSE {old.hour})
              /\ new.minute \in
                     (IF taken /\ args.minute # {} THEN args.minute ELSE {old.minute})
              /\ new.repeat \in (IF taken /\ args.days # {} THEN args.days ELSE {old.repeat})
              /\ new.enabled \in (IF args.enabled # {} THEN args.enabled ELSE {old.enabled})
              /\ new.label \in (IF args.label # {} THEN args.label ELSE {old.label})]_vars

\* edit_alarm with the minute alone has returned True for an alarm with a
\* label, while another alarm is stored: the minute is 0, the hour is 13, the
\* label is still there.
C28_Witness ==
    /\ last.op = "db_edit"
    /\ Supplied(last.args) = {"minute"}
    /\ last.ret = TRUE
    /\ last.id \in DOMAIN db
    /\ db[last.id].minute = 0
    /\ db[last.id].hour = 13
    /\ db[last.id].label = "wake"
    /\ DOMAIN db = Ids

\* C29: get_alarm of an identity with no row, never inserted or deleted,
\* returns None; delete_alarm of an identity with a row returns True and
\* removes that row alone, and get_alarm still returns every other alarm.
C29_GetMissingAndDelete ==
    [][/\ (last'.op = "db_get" /\ last'.id \notin DOMAIN db) => last'.ret = {}
       /\ (last.op = "db_delete" /\ last.ret = TRUE /\ last'.op = "db_get"
               /\ last'.id = last.id) => last'.ret = {}
       /\ (last'.op = "db_delete" /\ last'.id \in DOMAIN db) =>
              /\ last'.ret = TRUE
              /\ DOMAIN db' = DOMAIN db \ {last'.id}
              /\ \A k \in DOMAIN db' :
                     /\ db'[k] = db[k]
                     /\ get_alarm(db', k) = get_alarm(db, k)
                     /\ get_alarm(db', k) # {}]_vars

\* get_alarm has returned None for an identity in the range of the keys,
\* right after a delete_alarm that left another alarm stored.
C29_Witness ==
    /\ last.op = "db_get"
    /\ last.prev = "db_delete"
    /\ last.id \in Ids \ DOMAIN db
    /\ last.ret = {}
    /\ DOMAIN db # {}

\* The identities in a list of alarms.
ListIds(list) == {list[k] : k \in 1..Len(list)}

\* C30: every stored alarm is in get_all_enabled_alarms when it is enabled
\* and in get_all_disabled_alarms when it is not, in one of the two and once;
\* get_all_active_alarms holds the enabled alarms with a repeat day, and no
\* other.
C30_GettersPartition ==
    last.op = "db_lists" =>
        LET enabled == last.ret.enabled
            disabled == last.ret.disabled
            active == last.ret.active
        IN  /\ ListIds(enabled) = {k \in DOMAIN db : db[k].enabled}
            /\ ListIds(disabled) = {k \in DOMAIN db : ~db[k].enabled}
            /\ Len(enabled) + Len(disabled) = Cardinality(DOMAIN db)
            /\ ListIds(active) =
                   {k \in DOMAIN db : db[k].enabled /\ any_day_enabled(db[k])}
            /\ Len(active) = Cardinality(ListIds(active))

\* The getters were called on a table with an enabled alarm that has no
\* repeat day and a disabled one that has: each is in one list, neither is
\* active.
C30_Witness ==
    /\ last.op = "db_lists"
    /\ last.ret.active = <<>>
    /\ Len(last.ret.enabled) = 1
    /\ Len(last.ret.disabled) = 1
    /\ \E k \in DOMAIN db : ~db[k].enabled /\ any_day_enabled(db[k])

(***************************************************************************)
(* C31: minutes_to_alert gives the earliest coming occurrence.             *)
(***************************************************************************)
\* The minutes from the reference time on the reference weekday to the
\* alarm's time on the weekday day, counted forward within one week.
MinutesForward(alarm, day, hour, minute, weekday) ==
    ((day - weekday) * 1440 + DayMinute(alarm.hour, alarm.minute)
         - DayMinute(hour, minute)) % (7 * 1440)

\* C31: for an alarm with at least one repeat day, minutes_to_alert returns
\* the least, over the repeat days, of the minutes counted forward from the
\* reference time to the alarm's time on that day, modulo one week.
C31_EarliestOccurrence ==
    (last.op = "minutes_to_alert" /\ any_day_enabled(TheItem)) =>
        LET forward ==
                {MinutesForward(TheItem, day, last.args.hour, last.args.minute,
                                last.args.weekday) :
                     day \in {d \in 0..6 : TheItem.repeat[d + 1]}}
        IN  /\ last.ret \subseteq forward
            /\ last.ret # {}
            /\ \A minutes \in last.ret : \A other \in forward : minutes <= other

\* minutes_to_alert has returned 8639 for an alarm at 07:00 that repeats on
\* Monday and Sunday, the reference being Monday 07:01: Sunday comes before
\* the Monday of the week after.
C31_Witness ==
    /\ last.op = "minutes_to_alert"
    /\ TheItem.hour = 7 /\ TheItem.minute = 0
    /\ \A k \in 1..7 : TheItem.repeat[k] <=> (k \in {1, 7})
    /\ last.args = [hour |-> 7, minute |-> 1, weekday |-> 0]
    /\ last.ret = {8639}

(***************************************************************************)
(* C32: update_alarm.                                                      *)
(***************************************************************************)
\* C32 as stated: update_alarm leaves the list of threads and every thread
\* as they were; when it has changed whether the stored alarm is active, a
\* check_threads_state called next returns False and leaves the threads
\* consistent with the table.
C32_UpdateThenCheck ==
    [][last'.op = "update" =>
          /\ threads' = Aged(threads)
          /\ (/\ last'.ret = TRUE
              /\ is_active(db'[last'.id]) # is_active(db[last'.id])) =>
                 \A coop \in SUBSET AliveIds(threads') :
                     LET check == check_threads_state(db', threads', coop)
                     IN  /\ check.ret = FALSE
                         /\ Consistent(db', check.threads)]_vars

\* C32 for an update that creates the drift: before it the stored alarm was
\* active exactly when it had a running thread, and every thread stops within
\* the bound when asked to.  Then the next check_threads_state returns False
\* and leaves the threads consistent with the table.
C32_DriftByUpdateIsRepaired ==
    [][(/\ last'.op = "update"
        /\ last'.ret = TRUE
        /\ is_active(db[last'.id]) <=> is_alarm_running(threads, last'.id)
        /\ is_active(db'[last'.id]) # is_active(db[last'.id])) =>
          /\ threads' = Aged(threads)
          /\ LET check == check_threads_state(db', threads', AliveIds(threads'))
             IN  /\ check.ret = FALSE
                 /\ Consistent(db', check.threads)]_vars

\* The same, for an update made in a consistent state.
C32_DriftFromConsistentIsRepaired ==
    [][(/\ last'.op = "update"
        /\ last'.ret = TRUE
        /\ Consistent(db, threads)
        /\ is_active(db'[last'.id]) # is_active(db[last'.id])) =>
          /\ threads' = Aged(threads)
          /\ LET check == check_threads_state(db', threads', AliveIds(threads'))
             IN  /\ check.ret = FALSE
                 /\ Consistent(db', check.threads)]_vars

\* update_alarm never touches the list of threads.
C32_UpdateLeavesThreads ==
    [][last'.op = "update" => threads' = Aged(threads)]_vars

(***************************************************************************)
(* C33: delete_all_alarms.                                                 *)
(***************************************************************************)
\* C33: delete_all_alarms returns True exactly when the stop of all threads
\* left no thread in the list and the table had a row to delete; after True
\* the table and the list are empty; the table is emptied in every case, and
\* what stays in the list are threads of the list before that are still
\* alive after having been asked to stop, in the order they had.
C33_DeleteAllReport ==
    [][last'.op = "delete_all" =>
          /\ (last'.ret = TRUE) <=> (threads' = <<>> /\ db_delete_all_alarms_success(db))
          /\ (last'.ret = TRUE) => (DOMAIN db' = {} /\ threads' = <<>>)
          /\ DOMAIN db' = {}
          /\ \A i \in 1..Len(threads') :
                /\ isAlive(threads'[i]) /\ threads'[i].asked
                /\ \E j \in 1..Len(threads) :
                      /\ isAlive(threads[j])
                      /\ threads'[i] = thread_stop(Aged(threads)[j], {})
          /\ \A i1, i2 \in 1..Len(threads') :
                i1 < i2 => thread_index(threads, threads'[i1].id)
                               < thread_index(threads, threads'[i2].id)]_vars

\* delete_all_alarms has returned False with a table that had rows: a thread
\* did not stop within the bound and is still in the list.
C33_Witness ==
    /\ last.op = "delete_all" /\ last.ret = FALSE
    /\ DOMAIN db = {}
    /\ threads # <<>>
    /\ \A i \in 1..Len(threads) : isAlive(threads[i]) /\ threads[i].asked

(***************************************************************************)
(* C34: the construction of the manager.                                   *)
(***************************************************************************)
\* C34: when the constructor returns, every active stored alarm has exactly
\* one thread in the list, alive, and no other thread is in the list; when
\* the table was empty it now holds exactly two alarms, both inactive, and
\* the list is empty.
C34_ConstructedState ==
    [][last'.op = "construct" =>
          /\ \A k \in DOMAIN db' :
                Cardinality({i \in 1..Len(threads') : threads'[i].id = k})
                    = IF is_active(db'[k]) THEN 1 ELSE 0
          /\ \A i \in 1..Len(threads') :
                /\ threads'[i].id \in DOMAIN db'
                /\ isAlive(threads'[i])
                /\ threads'[i].alarm = db'[threads'[i].id]
          /\ DOMAIN db # {} => db' = db
          /\ DOMAIN db = {} =>
                /\ Cardinality(DOMAIN db') = 2
                /\ \A k \in DOMAIN db' : ~is_active(db'[k])
                /\ threads' = <<>>]_vars

\* A manager has been constructed over a table with an active and an
\* inactive alarm: one thread, for the active one.
C34_Witness ==
    /\ last.op = "construct"
    /\ \E k1, k2 \in DOMAIN db : is_active(db[k1]) /\ ~is_active(db[k2])
    /\ Len(threads) = 1

\* A manager has been constructed over an empty table.
C34_WitnessEmpty ==
    /\ last.op = "construct" /\ last.prev = "delete_all"
    /\ Cardinality(DOMAIN db) = 2
    /\ threads = <<>>

(***************************************************************************)
(* C35: the list returned by get_running_alarms.                           *)
(***************************************************************************)
\* C35 as stated: the list get_running_alarms returns, no timer asked to stop
\* by its check having been alive at the bound, has one entry per thread of
\* the list, and every entry is a stored alarm, never None, that is active
\* and whose thread is alive.
C35_RunningAlarmsAreRunning ==
    (last.op = "get_running" /\ ~TimedOut(threads)) =>
        /\ Len(running_alarms(db, threads)) = Len(threads)
        /\ \A i \in 1..Len(threads) :
              /\ running_alarms(db, threads)[i] # {}
              /\ \A alarm \in running_alarms(db, threads)[i] : is_active(alarm)
              /\ isAlive(threads[i])

\* The part about None alone: every entry is a stored alarm.
C35_NoNoneReturned ==
    (last.op = "get_running" /\ ~TimedOut(threads)) =>
        \A i \in 1..Len(threads) : running_alarms(db, threads)[i] # {}

(***************************************************************************)
(* C36: the stop methods return.                                           *)
(***************************************************************************)
\* The wait of a stop method is within its bound: at most 300 sleeps of
\* 10 ms in __stop_alarm_thread, at most 1500 rounds in
\* __stop_all_alarm_threads.
C36_WithinBound ==
    /\ callers[1].milliseconds_passed % sleep_milliseconds = 0
    /\ callers[1].pc \in {"stop_one_loop", "stop_one_wait"} =>
           callers[1].milliseconds_passed \div sleep_milliseconds <= 300
    /\ callers[1].pc = "stop_all_wait" =>
           callers[1].milliseconds_passed \div sleep_milliseconds <= 1500

\* At the bound with a thread still alive, the wait ends, the thread stays
\* in the list and the result is False.
C36_BoundStep ==
    /\ (/\ callers[1].pc = "stop_one_wait"
        /\ callers[1].milliseconds_passed = stop_alarm_thread_timeout
        /\ isAlive(threads[callers[1].pos])
        /\ callers' # callers) =>
           /\ callers'[1].pc = "stop_one_loop"
           /\ callers'[1].success = FALSE
           /\ threads' = threads
    /\ (/\ callers[1].pc = "stop_all_wait"
        /\ callers[1].milliseconds_passed = stop_all_alarm_threads_timeout
        /\ callers' # callers) =>
           /\ callers'[1].pc = "idle"
           /\ last'.op = "stop_all"
           /\ last'.ret = (threads = <<>>)
           /\ threads' = threads
    /\ (callers[1].pc = "stop_one_loop" /\ callers'[1].pc = "idle") =>
           /\ last'.op = "stop_one"
           /\ last'.ret = callers[1].success

Others(ths, alarm_id) == SelectSeq(ths, LAMBDA t : t.id # alarm_id)

\* C37: __stop_alarm_thread(alarm_id), called on its own or by delete_alarm,
\* and __set_alarm_thread of one alarm, called by add_alarm and edit_alarm,
\* leave the threads of every other identity as they were: none is asked to
\* stop, none is replaced, and they keep their order in the list.
C37_OthersUntouched ==
    [][last'.op \in {"stop_one", "delete", "edit", "add"} =>
          Others(threads', last'.id) = Aged(Others(threads, last'.id))]_vars

\* __stop_alarm_thread has removed the thread of one identity; the thread of
\* another identity, which came after it in the list, is alive and was not
\* asked to stop.
C37_Witness ==
    /\ last.op = "stop_one" /\ last.ret = TRUE
    /\ last.id = 1
    /\ Len(threads) = 1
    /\ threads[1].id = 2
    /\ threads[1].state = "Scheduled" /\ ~threads[1].asked

(***************************************************************************)
(* C38: diff_alarm.                                                        *)
(***************************************************************************)
\* The minutes of the week, counted from Monday 00:00, at which an alarm
\* with these fields triggers.
WeekInstants(alarm) ==
    {(day * 1440) + DayMinute(alarm.hour, alarm.minute) :
         day \in {d \in 0..6 : alarm.repeat[d + 1]}}

\* C38: for an integer difference from -59 to 59, diff_alarm returns an
\* alarm with the same enabled state, without identity and timestamp, whose
\* instants of the week are those of the original moved by the difference
\* modulo 10080, a repeat day moving to the next or the previous day when
\* the time crosses midnight; for any other difference it returns None.
C38_DiffAlarmShifts ==
    last.op = "diff_alarm" =>
        LET min_difference == last.args.min_difference
        IN  IF IsInt(min_difference) /\ min_difference.val \in -59..59
            THEN /\ Cardinality(last.ret) = 1
                 /\ \A result \in last.ret :
                       /\ result.alarm.enabled = TheItem.enabled
                       /\ result.id_ = {} /\ result.timestamp = {}
                       /\ ValidHour(result.alarm.hour) /\ ValidMinute(result.alarm.minute)
                       /\ WeekInstants(result.alarm)
                              = {(instant + min_difference.val) % (7 * 1440) :
                                     instant \in WeekInstants(TheItem)}
                       /\ Cardinality({d \in 1..7 : result.alarm.repeat[d]})
                              = Cardinality({d \in 1..7 : TheItem.repeat[d]})
            ELSE last.ret = {}

\* diff_alarm has moved a Monday 00:00 alarm with an identity back by 59
\* minutes: the result is a Sunday 23:01 alarm without identity.
C38_Witness ==
    /\ last.op = "diff_alarm"
    /\ last.id = {1}
    /\ last.args.min_difference = Value("int", -59)
    /\ TheItem.hour = 0 /\ TheItem.minute = 0
    /\ TheItem.repeat = [d \in 1..7 |-> d = 1]
    /\ \E result \in last.ret :
          /\ result.alarm.hour = 23 /\ result.alarm.minute = 1
          /\ result.alarm.repeat = [d \in 1..7 |-> d = 7]
          /\ result.alarm.label = " (Alarm 1 -59min)"
          /\ result.id_ = {}

(***************************************************************************)
(* C39: the result of __set_alarm_thread.                                  *)
(***************************************************************************)
\* C39 as stated: when __set_alarm_thread has returned, no timer it asked to
\* stop having been alive at the bound, its result is True exactly when a
\* thread of the alarm's identity is in the list and alive, also when it has
\* just replaced a dead thread by a new one.
C39_ResultIsThreadUp ==
    (last.op = "set_thread" /\ ~TimedOut(threads)) =>
        (last.ret = TRUE) <=> (Tracked(threads, last.id) /\ is_alarm_running(threads, last.id))

\* The same without the case of the replaced thread: when the thread of the
\* identity is not one the call has just constructed.
C39_ResultWithoutReplacement ==
    (/\ last.op = "set_thread" /\ ~TimedOut(threads)
     /\ ~(Tracked(threads, last.id) /\ ThreadOf(threads, last.id).fresh /\ last.ret = FALSE)) =>
        (last.ret = TRUE) <=> (Tracked(threads, last.id) /\ is_alarm_running(threads, last.id))

====
